---- MODULE Spec2Model ----
(***************************************************************************)
(* Barcelona city-builder puzzle: the game store (grid, deck, score, turn),*)
(* the upgrade rule catalog, the priority scan and the rebuild phase       *)
(* (cascade) of gameStore.ts / tiles.ts / types.ts.                        *)
(*                                                                         *)
(* placeTile is synchronous; it is modelled as a call step (PlaceTile),    *)
(* one step per iteration of the while loop of runRebuildPhase             *)
(* (RebuildStep) and a return step (PlaceTileReturn).  No other operation  *)
(* can run while pc = "rebuild".                                           *)
(***************************************************************************)
EXTENDS Integers, Sequences, FiniteSets, TLC

VARIABLES
    grid,          \* store.grid[superblockRow][superblockCol][cellIndex]
    deck,          \* store.deck: sequence of base categories
    score,         \* store.score
    turn,          \* store.turn
    pc,            \* "idle" | "rebuild" (inside runRebuildPhase) | "error" (thrown)
    queue,         \* runRebuildPhase: queue
    visited,       \* runRebuildPhase: visited
    upgradeCount,  \* runRebuildPhase: upgradeCount
    changes,       \* ghost: the changes [pos, from, to] applied since the last placeTile or init
    exSlums,       \* ghost: the cells whose tile has changed from slums to another kind since init
    last,          \* the last store call: [op, pos, ret]
    plan,          \* which bounded input plan drives the clicks and the draws
    hoveredCell,   \* store.hoveredCell: a position, or NoPos for null
    info           \* the getUpgradeInfo calls since the last placeTile or init:
                   \* [pos, ret, n, first], the position and value of the latest of
                   \* n calls and of the first of them

vars ==
    <<grid, deck, score, turn, pc, queue, visited, upgradeCount, changes, exSlums, last, plan,
      hoveredCell, info>>

(***************************************************************************)
(* types.ts                                                                *)
(***************************************************************************)
Null == "null"

Categories == {"R", "L", "C", "E"}

TileTypes ==
    {"house", "slums", "hotel", "villa", "tier2_residential", "highrise",
     "yard", "sports", "plaza", "park", "playground", "cinema",
     "shop", "shopping_center", "restaurant", "bank",
     "school", "highschool", "university"}

tileToCategory ==
    [house |-> "R", slums |-> "R", hotel |-> "R", villa |-> "R",
     tier2_residential |-> "R", highrise |-> "R",
     yard |-> "L", sports |-> "L", plaza |-> "L", park |-> "L",
     playground |-> "L", cinema |-> "L",
     shop |-> "C", shopping_center |-> "C", restaurant |-> "C", bank |-> "C",
     school |-> "E", highschool |-> "E", university |-> "E"]

categoryToDefaultTile ==
    [R |-> "house", L |-> "yard", C |-> "shop", E |-> "school"]

upgradeScores ==
    [slums |-> -6, hotel |-> 14, villa |-> 18, tier2_residential |-> 12,
     highrise |-> 40, sports |-> 8, plaza |-> 14, park |-> 24,
     shopping_center |-> 16, restaurant |-> 20, bank |-> 30,
     playground |-> 4, cinema |-> 10, highschool |-> 18, university |-> 35]

Pos(sbRow, sbCol, cellRow, cellCol) ==
    [superblockRow |-> sbRow, superblockCol |-> sbCol,
     cellRow |-> cellRow, cellCol |-> cellCol]

Positions ==
    {Pos(a, b, c, d) : a \in 0..2, b \in 0..2, c \in 0..2, d \in 0..2}

(***************************************************************************)
(* gameStore.ts: constants                                                 *)
(***************************************************************************)
SUPERBLOCK_SIZE == 3
GRID_SIZE == 3
TOTAL_CELLS == SUPERBLOCK_SIZE * SUPERBLOCK_SIZE * GRID_SIZE * GRID_SIZE
DECK_SIZE == 5
MAX_UPGRADES == 10000

(***************************************************************************)
(* gameStore.ts: store.getCell / store.setCell and createGameAccessor.     *)
(* Every accessor takes the grid it reads as its first argument.           *)
(***************************************************************************)
getCell(g, pos) ==
    g[pos.superblockRow][pos.superblockCol][pos.cellRow * 3 + pos.cellCol]

\* mutant: row and column swapped in the cell index of the write
setCell_Transposed(g, pos, tile) ==
    [g EXCEPT ![pos.superblockRow][pos.superblockCol][pos.cellCol * 3 + pos.cellRow] = tile]

setCell(g, pos, tile) ==
    [g EXCEPT ![pos.superblockRow][pos.superblockCol][pos.cellRow * 3 + pos.cellCol] = tile]

Directions == << <<-1, 0>>, <<1, 0>>, <<0, -1>>, <<0, 1>> >>

InRange(n) == n >= 0 /\ n < 3

\* mutant: the neighbours are taken on the whole board, across block borders
getAdjacentCells_AcrossBlocks(g, pos) ==
    LET row == pos.superblockRow * 3 + pos.cellRow
        col == pos.superblockCol * 3 + pos.cellCol
        inside(d) == row + d[1] >= 0 /\ row + d[1] < 9 /\ col + d[2] >= 0 /\ col + d[2] < 9
        kept == SelectSeq(Directions, inside)
        newPos(d) == Pos((row + d[1]) \div 3, (col + d[2]) \div 3,
                         (row + d[1]) % 3, (col + d[2]) % 3)
    IN  [i \in 1..Len(kept) |->
            [pos |-> newPos(kept[i]), tile |-> getCell(g, newPos(kept[i]))]]

getAdjacentCells(g, pos) ==
    LET inside(d) == InRange(pos.cellRow + d[1]) /\ InRange(pos.cellCol + d[2])
        kept == SelectSeq(Directions, inside)
        newPos(d) == Pos(pos.superblockRow, pos.superblockCol,
                         pos.cellRow + d[1], pos.cellCol + d[2])
    IN  [i \in 1..Len(kept) |->
            [pos |-> newPos(kept[i]), tile |-> getCell(g, newPos(kept[i]))]]

getSuperblockCells(g, sbRow, sbCol) ==
    [i \in 1..9 |->
        LET p == Pos(sbRow, sbCol, (i - 1) \div 3, (i - 1) % 3)
        IN  [pos |-> p, tile |-> getCell(g, p)]]

getAdjacentSuperblocks(sbRow, sbCol) ==
    LET inside(d) == InRange(sbRow + d[1]) /\ InRange(sbCol + d[2])
        kept == SelectSeq(Directions, inside)
    IN  [i \in 1..Len(kept) |->
            [sbRow |-> sbRow + kept[i][1], sbCol |-> sbCol + kept[i][2]]]

\* mutant: only the four corner cells count as near the road
isNearRoad_CornersOnly(pos) ==
    (pos.cellRow = 0 \/ pos.cellRow = 2) /\ (pos.cellCol = 0 \/ pos.cellCol = 2)

\* mutant: only the first and the last row count as near the road
isNearRoad_RowsOnly(pos) == pos.cellRow = 0 \/ pos.cellRow = 2

isNearRoad(pos) ==
    pos.cellRow = 0 \/ pos.cellRow = 2 \/ pos.cellCol = 0 \/ pos.cellCol = 2

\* mutant: only the default kind of a category is counted as that category
IsCategory_DefaultKindOnly(tile, category) ==
    tile # Null /\ categoryToDefaultTile[category] = tile

IsCategory(tile, category) ==
    tile # Null /\ tileToCategory[tile] = category

\* mutant: every tile of the superblock is counted, whatever its category
countInSuperblock_AnyCategory(g, sbRow, sbCol, category) ==
    Cardinality({rc \in (0..2) \X (0..2) :
        getCell(g, Pos(sbRow, sbCol, rc[1], rc[2])) # Null})

\* mutant: the last row of the superblock is not counted
countInSuperblock_TwoRows(g, sbRow, sbCol, category) ==
    Cardinality({rc \in (0..1) \X (0..2) :
        IsCategory(getCell(g, Pos(sbRow, sbCol, rc[1], rc[2])), category)})

countInSuperblock(g, sbRow, sbCol, category) ==
    Cardinality({rc \in (0..2) \X (0..2) :
        IsCategory(getCell(g, Pos(sbRow, sbCol, rc[1], rc[2])), category)})

countTileTypeInSuperblock(g, sbRow, sbCol, tileType) ==
    Cardinality({rc \in (0..2) \X (0..2) :
        getCell(g, Pos(sbRow, sbCol, rc[1], rc[2])) = tileType})

\* the cells of the superblocks in the list `adjacent`, one per (list index, cell)
CellsOf(adjacent) ==
    {x \in (1..Len(adjacent)) \X (0..2) \X (0..2) : TRUE}

CellAt(adjacent, x) ==
    Pos(adjacent[x[1]].sbRow, adjacent[x[1]].sbCol, x[2], x[3])

\* mutant: every superblock other than (sbRow, sbCol) is counted
countInAdjacentSuperblocks_AllOthers(g, sbRow, sbCol, category) ==
    Cardinality({x \in (0..2) \X (0..2) \X (0..2) \X (0..2) :
        /\ (x[1] # sbRow \/ x[2] # sbCol)
        /\ IsCategory(getCell(g, Pos(x[1], x[2], x[3], x[4])), category)})

\* count += countInSuperblock(r, c, category) over the adjacent superblocks
countInAdjacentSuperblocks(g, sbRow, sbCol, category) ==
    LET adjacent == getAdjacentSuperblocks(sbRow, sbCol)
    IN  Cardinality({x \in CellsOf(adjacent) :
            IsCategory(getCell(g, CellAt(adjacent, x)), category)})

countTileTypeInAdjacentSuperblocks(g, sbRow, sbCol, tileType) ==
    LET adjacent == getAdjacentSuperblocks(sbRow, sbCol)
    IN  Cardinality({x \in CellsOf(adjacent) :
            getCell(g, CellAt(adjacent, x)) = tileType})

\* mutant: every residential tile counts 1
countResidentialValueInAdjacentSuperblocks_Unweighted(g, sbRow, sbCol) ==
    LET adjacent == getAdjacentSuperblocks(sbRow, sbCol)
    IN  Cardinality({x \in CellsOf(adjacent) :
            IsCategory(getCell(g, CellAt(adjacent, x)), "R")})

\* value += 4 for tier2_residential and highrise, += 1 for any other residential
countResidentialValueInAdjacentSuperblocks(g, sbRow, sbCol) ==
    LET adjacent == getAdjacentSuperblocks(sbRow, sbCol)
        residential == {x \in CellsOf(adjacent) :
                            IsCategory(getCell(g, CellAt(adjacent, x)), "R")}
        heavy == {x \in residential :
                      getCell(g, CellAt(adjacent, x)) \in {"tier2_residential", "highrise"}}
    IN  4 * Cardinality(heavy) + 1 * Cardinality(residential \ heavy)

(***************************************************************************)
(* tiles.ts: the rule catalog.  An UpgradeResult is                        *)
(* [verdict |-> "cannot_upgrade"] or                                       *)
(* [verdict |-> "can_upgrade", conditions |-> <<[met, desc], ...>>].       *)
(* desc is the description as the template literal of the code builds it,  *)
(* the counts it shows included.  Strings here are ASCII: >= stands for    *)
(* the code's greater-or-equal sign and x for its multiplication sign.     *)
(***************************************************************************)
\* `${n}` of a number and of a boolean in a template literal
Num(n) == ToString(n)

Bool(b) == IF b THEN "true" ELSE "false"

\* the elements of an array
Range(seq) == {seq[i] : i \in 1..Len(seq)}

CannotUpgrade == [verdict |-> "cannot_upgrade"]

CanUpgrade(conditions) == [verdict |-> "can_upgrade", conditions |-> conditions]

Cond(met, desc) == [met |-> met, desc |-> desc]

AdjacentPositions(g, pos) ==
    LET adjacent == getAdjacentCells(g, pos)
    IN  [i \in 1..Len(adjacent) |-> adjacent[i].pos]

\* mutant: the size counts one cell too many
findConnectedCommercialCluster_PlusOne(g, startPos) ==
    LET dfs[todo \in Seq(Positions), seen \in SUBSET Positions] ==
            IF todo = <<>> THEN seen
            ELSE IF Head(todo) \in seen THEN dfs[Tail(todo), seen]
            ELSE IF ~IsCategory(getCell(g, Head(todo)), "C") THEN dfs[Tail(todo), seen]
            ELSE dfs[AdjacentPositions(g, Head(todo)) \o Tail(todo), seen \cup {Head(todo)}]
        final == dfs[<<startPos>>, {}]
    IN  [size |-> Cardinality(final) + 1,
         touchesRoad |-> \E p \in final : isNearRoad(p)]

\* mutant: the traversal does not leave the start cell
findConnectedCommercialCluster_StartOnly(g, startPos) ==
    [size |-> IF IsCategory(getCell(g, startPos), "C") THEN 1 ELSE 0,
     touchesRoad |-> IsCategory(getCell(g, startPos), "C") /\ isNearRoad(startPos)]

\* dfs: `todo` is the pending calls dfs(pos) in call order (the recursion's
\* stack), `seen` the visited set; the result is the visited set at the end.
\* clusterSize is incremented exactly when a key is added to visited.
findConnectedCommercialCluster(g, startPos) ==
    LET dfs[todo \in Seq(Positions), seen \in SUBSET Positions] ==
            IF todo = <<>> THEN seen
            ELSE IF Head(todo) \in seen THEN dfs[Tail(todo), seen]
            ELSE IF ~IsCategory(getCell(g, Head(todo)), "C") THEN dfs[Tail(todo), seen]
            ELSE dfs[AdjacentPositions(g, Head(todo)) \o Tail(todo), seen \cup {Head(todo)}]
        final == dfs[<<startPos>>, {}]
    IN  [size |-> Cardinality(final),
         touchesRoad |-> \E p \in final : isNearRoad(p)]

\* mutant: the slums candidate does not look at leisure and education
residentialUpgrades_SlumsDespiteLeisure(g, pos) ==
    LET currentTile == getCell(g, pos)
        sbr == pos.superblockRow
        sbc == pos.superblockCol
        rCount == countInSuperblock(g, sbr, sbc, "R")
        lCount == countInSuperblock(g, sbr, sbc, "L")
        cCount == countInSuperblock(g, sbr, sbc, "C")
        eCount == countInSuperblock(g, sbr, sbc, "E")
        isLeisure(a) == IsCategory(a.tile, "L")
    IN  [slums |->
            IF currentTile # "house" THEN CannotUpgrade
            ELSE CanUpgrade(<<
                Cond(rCount >= 4, "Residential >= 4 in block (" \o Num(rCount) \o "/4)"),
                Cond(lCount >= 0 /\ eCount >= 0, "No Leisure or Education in block (L:" \o Num(lCount) \o ", E:" \o Num(eCount) \o ")")>>),
         hotel |->
            IF currentTile # "house" THEN CannotUpgrade
            ELSE CanUpgrade(<<
                Cond(cCount >= 3, "Commercial >= 3 in block (" \o Num(cCount) \o "/3)"),
                Cond(rCount < 3, "Residential < 3 in block (" \o Num(rCount) \o "/3)")>>),
         villa |->
            IF currentTile # "house" THEN CannotUpgrade
            ELSE CanUpgrade(<<
                Cond(\E a \in Range(getAdjacentCells(g, pos)) : isLeisure(a), "Adjacent to Leisure"),
                Cond(~isNearRoad(pos), "Not near road (edge of superblock)")>>),
         tier2_residential |->
            IF currentTile # "house" /\ currentTile # "slums" THEN CannotUpgrade
            ELSE CanUpgrade(<<
                Cond(rCount >= 3, "Residential >= 3 in block (" \o Num(rCount) \o "/3)"),
                Cond(lCount >= 1, "Leisure >= 1 in block (" \o Num(lCount) \o "/1)"),
                Cond(cCount >= 1, "Commercial >= 1 in block (" \o Num(cCount) \o "/1)"),
                Cond(eCount >= 1, "Education >= 1 in block (" \o Num(eCount) \o "/1)")>>),
         highrise |->
            IF currentTile # "tier2_residential" THEN CannotUpgrade
            ELSE CanUpgrade(<<
                Cond(countTileTypeInAdjacentSuperblocks(g, sbr, sbc, "shopping_center") > 0,
                     "Shopping Center in adjacent blocks"),
                Cond(countResidentialValueInAdjacentSuperblocks(g, sbr, sbc) >= 20,
                     ">= 20 residential value in adjacent blocks ("
                         \o Num(countResidentialValueInAdjacentSuperblocks(g, sbr, sbc)) \o "/20)"),
                Cond(eCount >= 1, "Education >= 1 in block (" \o Num(eCount) \o "/1)"),
                Cond(lCount >= 3, "Leisure >= 3 in block (" \o Num(lCount) \o "/3)")>>)]

residentialUpgrades(g, pos) ==
    LET currentTile == getCell(g, pos)
        sbr == pos.superblockRow
        sbc == pos.superblockCol
        rCount == countInSuperblock(g, sbr, sbc, "R")
        lCount == countInSuperblock(g, sbr, sbc, "L")
        cCount == countInSuperblock(g, sbr, sbc, "C")
        eCount == countInSuperblock(g, sbr, sbc, "E")
        isLeisure(a) == IsCategory(a.tile, "L")
    IN  [slums |->
            IF currentTile # "house" THEN CannotUpgrade
            ELSE CanUpgrade(<<
                Cond(rCount >= 4, "Residential >= 4 in block (" \o Num(rCount) \o "/4)"),
                Cond(lCount = 0 /\ eCount = 0, "No Leisure or Education in block (L:" \o Num(lCount) \o ", E:" \o Num(eCount) \o ")")>>),
         hotel |->
            IF currentTile # "house" THEN CannotUpgrade
            ELSE CanUpgrade(<<
                Cond(cCount >= 3, "Commercial >= 3 in block (" \o Num(cCount) \o "/3)"),
                Cond(rCount < 3, "Residential < 3 in block (" \o Num(rCount) \o "/3)")>>),
         villa |->
            IF currentTile # "house" THEN CannotUpgrade
            ELSE CanUpgrade(<<
                Cond(\E a \in Range(getAdjacentCells(g, pos)) : isLeisure(a), "Adjacent to Leisure"),
                Cond(~isNearRoad(pos), "Not near road (edge of superblock)")>>),
         tier2_residential |->
            IF currentTile # "house" /\ currentTile # "slums" THEN CannotUpgrade
            ELSE CanUpgrade(<<
                Cond(rCount >= 3, "Residential >= 3 in block (" \o Num(rCount) \o "/3)"),
                Cond(lCount >= 1, "Leisure >= 1 in block (" \o Num(lCount) \o "/1)"),
                Cond(cCount >= 1, "Commercial >= 1 in block (" \o Num(cCount) \o "/1)"),
                Cond(eCount >= 1, "Education >= 1 in block (" \o Num(eCount) \o "/1)")>>),
         highrise |->
            IF currentTile # "tier2_residential" THEN CannotUpgrade
            ELSE CanUpgrade(<<
                Cond(countTileTypeInAdjacentSuperblocks(g, sbr, sbc, "shopping_center") > 0,
                     "Shopping Center in adjacent blocks"),
                Cond(countResidentialValueInAdjacentSuperblocks(g, sbr, sbc) >= 20,
                     ">= 20 residential value in adjacent blocks ("
                         \o Num(countResidentialValueInAdjacentSuperblocks(g, sbr, sbc)) \o "/20)"),
                Cond(eCount >= 1, "Education >= 1 in block (" \o Num(eCount) \o "/1)"),
                Cond(lCount >= 3, "Leisure >= 3 in block (" \o Num(lCount) \o "/3)")>>)]

SquareOffsets ==
    << << <<0, 0>>, <<0, 1>>, <<1, 0>>, <<1, 1>> >>,
       << <<0, -1>>, <<0, 0>>, <<1, -1>>, <<1, 0>> >>,
       << <<-1, 0>>, <<-1, 1>>, <<0, 0>>, <<0, 1>> >>,
       << <<-1, -1>>, <<-1, 0>>, <<0, -1>>, <<0, 0>> >> >>

\* mutant: only the square whose top-left cell is pos is tested
checkLeisureSquare_TopLeftOnly(g, pos) ==
    \A k \in 1..4 :
        LET newRow == pos.cellRow + SquareOffsets[1][k][1]
            newCol == pos.cellCol + SquareOffsets[1][k][2]
        IN  /\ ~(newRow < 0 \/ newRow > 2 \/ newCol < 0 \/ newCol > 2)
            /\ IsCategory(getCell(g, Pos(pos.superblockRow, pos.superblockCol,
                                         newRow, newCol)), "L")

\* mutant: the squares are taken on the whole board, across block borders
checkLeisureSquare_AcrossBlocks(g, pos) ==
    \E s \in 1..Len(SquareOffsets) :
        \A k \in 1..4 :
            LET newRow == pos.superblockRow * 3 + pos.cellRow + SquareOffsets[s][k][1]
                newCol == pos.superblockCol * 3 + pos.cellCol + SquareOffsets[s][k][2]
            IN  /\ ~(newRow < 0 \/ newRow > 8 \/ newCol < 0 \/ newCol > 8)
                /\ IsCategory(getCell(g, Pos(newRow \div 3, newCol \div 3,
                                             newRow % 3, newCol % 3)), "L")

checkLeisureSquare(g, pos) ==
    \E s \in 1..Len(SquareOffsets) :
        \A k \in 1..4 :
            LET newRow == pos.cellRow + SquareOffsets[s][k][1]
                newCol == pos.cellCol + SquareOffsets[s][k][2]
            IN  /\ ~(newRow < 0 \/ newRow > 2 \/ newCol < 0 \/ newCol > 2)
                /\ IsCategory(getCell(g, Pos(pos.superblockRow, pos.superblockCol,
                                             newRow, newCol)), "L")

leisureUpgrades(g, pos) ==
    LET currentTile == getCell(g, pos)
        adjacent == getAdjacentCells(g, pos)
        adjacentLeisureCount ==
            Cardinality({i \in 1..Len(adjacent) : IsCategory(adjacent[i].tile, "L")})
        isEducation(a) == IsCategory(a.tile, "E")
        isShoppingCenter(a) == a.tile = "shopping_center"
        lCount == countInSuperblock(g, pos.superblockRow, pos.superblockCol, "L")
    IN  [sports |->
            IF currentTile # "yard" /\ currentTile # "playground" THEN CannotUpgrade
            ELSE CanUpgrade(<<Cond(adjacentLeisureCount >= 2, ">= 2 adjacent Leisure (" \o Num(adjacentLeisureCount) \o "/2)")>>),
         playground |->
            IF currentTile # "yard" THEN CannotUpgrade
            ELSE CanUpgrade(<<Cond(\E a \in Range(adjacent) : isEducation(a), "Adjacent to Education")>>),
         plaza |->
            IF currentTile # "yard" /\ currentTile # "sports" /\ currentTile # "playground"
            THEN CannotUpgrade
            ELSE CanUpgrade(<<Cond(checkLeisureSquare(g, pos), "Part of 2x2 Leisure square")>>),
         park |->
            IF ~IsCategory(currentTile, "L") \/ currentTile = "cinema" THEN CannotUpgrade
            ELSE CanUpgrade(<<Cond(lCount >= 7, "Leisure >= 7 in block (" \o Num(lCount) \o "/7)")>>),
         cinema |->
            IF currentTile # "yard" /\ currentTile # "sports"
               /\ currentTile # "playground" /\ currentTile # "plaza"
            THEN CannotUpgrade
            ELSE CanUpgrade(<<Cond(\E a \in Range(adjacent) : isShoppingCenter(a),
                                   "Adjacent to Shopping Center")>>)]

\* mutant: a shop beside a shopping center does not qualify
commercialUpgrades_NotBesideCenter(g, pos) ==
    LET currentTile == getCell(g, pos)
        sbr == pos.superblockRow
        sbc == pos.superblockCol
        adjacent == getAdjacentCells(g, pos)
        isShoppingCenter(a) == a.tile = "shopping_center"
        isCommercial(a) == IsCategory(a.tile, "C")
        hasAdjacentShoppingCenter == \E a \in Range(adjacent) : isShoppingCenter(a)
        cluster == findConnectedCommercialCluster(g, pos)
        clusterValid == cluster.size >= 3 /\ cluster.touchesRoad
        totalResidential ==
            countInSuperblock(g, sbr, sbc, "R") + countInAdjacentSuperblocks(g, sbr, sbc, "R")
        tier2Count == countTileTypeInAdjacentSuperblocks(g, sbr, sbc, "tier2_residential")
    IN  [shopping_center |->
            IF currentTile # "shop" THEN CannotUpgrade
            ELSE CanUpgrade(<<
                Cond(~hasAdjacentShoppingCenter /\ clusterValid,
                     IF hasAdjacentShoppingCenter
                     THEN "Adjacent to Shopping Center"
                     ELSE "3+ connected Commercial touching road (size: " \o Num(cluster.size)
                          \o ", road: " \o Bool(cluster.touchesRoad) \o ")")>>),
         restaurant |->
            IF currentTile # "shop" THEN CannotUpgrade
            ELSE CanUpgrade(<<
                Cond(\E a \in Range(adjacent) : isCommercial(a), "Has adjacent Commercial"),
                Cond(totalResidential >= 10, "Total Residential >= 10 in block + adjacent ("
                         \o Num(totalResidential) \o "/10)")>>),
         bank |->
            IF currentTile # "shop" THEN CannotUpgrade
            ELSE CanUpgrade(<<
                Cond(tier2Count >= 4, ">= 4 Tier-2 Residential in adjacent blocks ("
                         \o Num(tier2Count) \o "/4)")>>)]

commercialUpgrades(g, pos) ==
    LET currentTile == getCell(g, pos)
        sbr == pos.superblockRow
        sbc == pos.superblockCol
        adjacent == getAdjacentCells(g, pos)
        isShoppingCenter(a) == a.tile = "shopping_center"
        isCommercial(a) == IsCategory(a.tile, "C")
        hasAdjacentShoppingCenter == \E a \in Range(adjacent) : isShoppingCenter(a)
        cluster == findConnectedCommercialCluster(g, pos)
        clusterValid == cluster.size >= 3 /\ cluster.touchesRoad
        totalResidential ==
            countInSuperblock(g, sbr, sbc, "R") + countInAdjacentSuperblocks(g, sbr, sbc, "R")
        tier2Count == countTileTypeInAdjacentSuperblocks(g, sbr, sbc, "tier2_residential")
    IN  [shopping_center |->
            IF currentTile # "shop" THEN CannotUpgrade
            ELSE CanUpgrade(<<
                Cond(hasAdjacentShoppingCenter \/ clusterValid,
                     IF hasAdjacentShoppingCenter
                     THEN "Adjacent to Shopping Center"
                     ELSE "3+ connected Commercial touching road (size: " \o Num(cluster.size)
                          \o ", road: " \o Bool(cluster.touchesRoad) \o ")")>>),
         restaurant |->
            IF currentTile # "shop" THEN CannotUpgrade
            ELSE CanUpgrade(<<
                Cond(\E a \in Range(adjacent) : isCommercial(a), "Has adjacent Commercial"),
                Cond(totalResidential >= 10, "Total Residential >= 10 in block + adjacent ("
                         \o Num(totalResidential) \o "/10)")>>),
         bank |->
            IF currentTile # "shop" THEN CannotUpgrade
            ELSE CanUpgrade(<<
                Cond(tier2Count >= 4, ">= 4 Tier-2 Residential in adjacent blocks ("
                         \o Num(tier2Count) \o "/4)")>>)]

\* mutant: only tiles of kind school count as another school
educationUpgrades_SchoolKindOnly(g, pos) ==
    LET currentTile == getCell(g, pos)
        sbr == pos.superblockRow
        sbc == pos.superblockCol
        residentialInAdjBlocks == countInAdjacentSuperblocks(g, sbr, sbc, "R")
        schoolsInAdjBlocks ==
            countTileTypeInAdjacentSuperblocks(g, sbr, sbc, "school")
        eCount == countInSuperblock(g, sbr, sbc, "E")
    IN  [highschool |->
            IF currentTile # "school" THEN CannotUpgrade
            ELSE CanUpgrade(<<
                Cond(residentialInAdjBlocks >= 20, ">= 20 Residential in adjacent blocks ("
                         \o Num(residentialInAdjBlocks) \o "/20)"),
                Cond(schoolsInAdjBlocks >= 1, "Another school in adjacent blocks ("
                         \o Num(schoolsInAdjBlocks) \o "/1)")>>),
         university |->
            IF currentTile # "school" /\ currentTile # "highschool" THEN CannotUpgrade
            ELSE CanUpgrade(<<Cond(eCount >= 4, ">= 4 Education in block (" \o Num(eCount) \o "/4)")>>)]

educationUpgrades(g, pos) ==
    LET currentTile == getCell(g, pos)
        sbr == pos.superblockRow
        sbc == pos.superblockCol
        residentialInAdjBlocks == countInAdjacentSuperblocks(g, sbr, sbc, "R")
        schoolsInAdjBlocks ==
            countTileTypeInAdjacentSuperblocks(g, sbr, sbc, "school")
            + countTileTypeInAdjacentSuperblocks(g, sbr, sbc, "highschool")
            + countTileTypeInAdjacentSuperblocks(g, sbr, sbc, "university")
        eCount == countInSuperblock(g, sbr, sbc, "E")
    IN  [highschool |->
            IF currentTile # "school" THEN CannotUpgrade
            ELSE CanUpgrade(<<
                Cond(residentialInAdjBlocks >= 20, ">= 20 Residential in adjacent blocks ("
                         \o Num(residentialInAdjBlocks) \o "/20)"),
                Cond(schoolsInAdjBlocks >= 1, "Another school in adjacent blocks ("
                         \o Num(schoolsInAdjBlocks) \o "/1)")>>),
         university |->
            IF currentTile # "school" /\ currentTile # "highschool" THEN CannotUpgrade
            ELSE CanUpgrade(<<Cond(eCount >= 4, ">= 4 Education in block (" \o Num(eCount) \o "/4)")>>)]

\* mutant: education in the block is not looked at
slumsDowngrade_LeisureOnly(g, pos) ==
    LET currentTile == getCell(g, pos)
        lCount == countInSuperblock(g, pos.superblockRow, pos.superblockCol, "L")
        eCount == countInSuperblock(g, pos.superblockRow, pos.superblockCol, "E")
    IN  [house |->
            IF currentTile # "slums" THEN CannotUpgrade
            ELSE CanUpgrade(<<Cond(lCount > 0, "Leisure or Education added to block (L:" \o Num(lCount)
                                   \o ", E:" \o Num(eCount) \o ")")>>)]

\* mutant: the downgrade tests the counts with >= instead of >
slumsDowngrade_AlwaysMet(g, pos) ==
    LET currentTile == getCell(g, pos)
        lCount == countInSuperblock(g, pos.superblockRow, pos.superblockCol, "L")
        eCount == countInSuperblock(g, pos.superblockRow, pos.superblockCol, "E")
    IN  [house |->
            IF currentTile # "slums" THEN CannotUpgrade
            ELSE CanUpgrade(<<Cond(lCount >= 0 \/ eCount >= 0,
                                   "Leisure or Education added to block (L:" \o Num(lCount)
                                   \o ", E:" \o Num(eCount) \o ")")>>)]

\* mutant: the downgrade entry is a leisure kind
slumsDowngrade_ToPlayground(g, pos) ==
    LET currentTile == getCell(g, pos)
        lCount == countInSuperblock(g, pos.superblockRow, pos.superblockCol, "L")
        eCount == countInSuperblock(g, pos.superblockRow, pos.superblockCol, "E")
    IN  [playground |->
            IF currentTile # "slums" THEN CannotUpgrade
            ELSE CanUpgrade(<<Cond(lCount > 0 \/ eCount > 0,
                                   "Leisure or Education added to block (L:" \o Num(lCount)
                                   \o ", E:" \o Num(eCount) \o ")")>>)]

slumsDowngrade(g, pos) ==
    LET currentTile == getCell(g, pos)
        lCount == countInSuperblock(g, pos.superblockRow, pos.superblockCol, "L")
        eCount == countInSuperblock(g, pos.superblockRow, pos.superblockCol, "E")
    IN  [house |->
            IF currentTile # "slums" THEN CannotUpgrade
            ELSE CanUpgrade(<<Cond(lCount > 0 \/ eCount > 0,
                                   "Leisure or Education added to block (L:" \o Num(lCount)
                                   \o ", E:" \o Num(eCount) \o ")")>>)]

\* results[name] for every name of the category's checker, plus the
\* downgrade entries when the tile is slums
getUpgradesForTile(g, tile, pos) ==
    LET category == tileToCategory[tile]
        upgrades == CASE category = "R" -> residentialUpgrades(g, pos)
                      [] category = "L" -> leisureUpgrades(g, pos)
                      [] category = "C" -> commercialUpgrades(g, pos)
                      [] category = "E" -> educationUpgrades(g, pos)
        downgrade == slumsDowngrade(g, pos)
    IN  IF tile = "slums"
        THEN [name \in DOMAIN upgrades \cup DOMAIN downgrade |->
                IF name \in DOMAIN downgrade THEN downgrade[name] ELSE upgrades[name]]
        ELSE upgrades

\* mutant: tier2_residential is missing from the list
upgradePriority_NoTier2 ==
    <<"highrise", "park", "bank", "university",
      "shopping_center", "restaurant", "plaza", "cinema", "highschool",
      "villa", "hotel", "sports", "playground",
      "house",
      "slums">>

\* mutant: park is missing from the list
upgradePriority_NoPark ==
    <<"highrise", "bank", "university",
      "tier2_residential", "shopping_center", "restaurant", "plaza", "cinema", "highschool",
      "villa", "hotel", "sports", "playground",
      "house",
      "slums">>

\* mutant: cinema is missing from the list
upgradePriority_NoCinema ==
    <<"highrise", "park", "bank", "university",
      "tier2_residential", "shopping_center", "restaurant", "plaza", "highschool",
      "villa", "hotel", "sports", "playground",
      "house",
      "slums">>

\* mutant: university is missing from the list
upgradePriority_NoUniversity ==
    <<"highrise", "park", "bank",
      "tier2_residential", "shopping_center", "restaurant", "plaza", "cinema", "highschool",
      "villa", "hotel", "sports", "playground",
      "house",
      "slums">>

\* mutant: playground listed before sports
upgradePriority_PlaygroundFirst ==
    <<"highrise", "park", "bank", "university",
      "tier2_residential", "shopping_center", "restaurant", "plaza", "cinema", "highschool",
      "villa", "hotel", "playground", "sports",
      "house",
      "slums">>

\* mutant: house is missing from the order
upgradePriority_NoHouse ==
    <<"highrise", "park", "bank", "university", "tier2_residential", "shopping_center",
      "restaurant", "plaza", "cinema", "highschool", "villa", "hotel", "sports",
      "playground", "slums">>

\* mutant: the order is reversed
upgradePriority_Reversed ==
    <<"slums", "house", "playground", "sports", "hotel", "villa", "highschool", "cinema",
      "plaza", "restaurant", "shopping_center", "tier2_residential", "university", "bank",
      "park", "highrise">>

upgradePriority ==
    <<"highrise", "park", "bank", "university",
      "tier2_residential", "shopping_center", "restaurant", "plaza", "cinema", "highschool",
      "villa", "hotel", "sports", "playground",
      "house",
      "slums">>

(***************************************************************************)
(* Bounded inputs.  The player's clicks and the outcomes of                *)
(* generateRandomCategory are the inputs of the store.  Plan 0 explores    *)
(* them freely: any of the first NumFreeCells cells of FreeCellList, any   *)
(* category, for MaxTurns placements.  Plan k > 0 plays Scripts[k], a      *)
(* fixed sequence of (cell, drawn category) pairs that takes the board to  *)
(* depths the free plan cannot reach.  Draws that no placement of the plan *)
(* can consume are fixed to "R".  The last plan, RegionPlan, plays the     *)
(* slums round trip on the first NumRegionCells cells of RegionCellList:   *)
(* four residential draws on any four of them in any order, then one       *)
(* leisure or education draw on any remaining one.                         *)
(***************************************************************************)
MaxTurns == 3
NumFreeCells == 4
NumRegionCells == 5

FreeCellList ==
    <<Pos(0, 0, 0, 0), Pos(0, 0, 0, 1), Pos(0, 0, 0, 2), Pos(0, 0, 1, 1),
      Pos(0, 0, 1, 0), Pos(0, 1, 0, 0), Pos(0, 0, 1, 2), Pos(0, 0, 2, 1)>>

FreeCells ==
    {FreeCellList[i] : i \in 1..(IF NumFreeCells < Len(FreeCellList)
                                 THEN NumFreeCells ELSE Len(FreeCellList))}

St(sbRow, sbCol, cellRow, cellCol, cat) ==
    [pos |-> Pos(sbRow, sbCol, cellRow, cellCol), cat |-> cat]

\* 10 residential around two adjacent shops, the last house in a neighbouring block
ScriptRestaurant ==
    <<St(0, 1, 0, 0, "R"), St(0, 1, 0, 1, "R"), St(0, 1, 0, 2, "R"), St(0, 1, 1, 0, "R"),
      St(0, 0, 0, 0, "C"), St(0, 0, 0, 1, "C"),
      St(0, 0, 2, 0, "R"), St(0, 0, 2, 1, "R"), St(0, 0, 2, 2, "R"),
      St(1, 0, 0, 0, "R"), St(1, 0, 0, 1, "R"), St(1, 0, 0, 2, "R")>>

\* four tier-2 residential in block (0,1), then three connected shops in block
\* (0,0), then three houses, a yard and a school (no shop) in block (2,2)
ScriptBank ==
    <<St(0, 1, 0, 0, "R"), St(0, 1, 0, 1, "R"), St(0, 1, 0, 2, "R"),
      St(0, 1, 1, 0, "L"), St(0, 1, 2, 2, "C"), St(0, 1, 2, 0, "E"),
      St(0, 1, 1, 2, "R"),
      St(0, 0, 0, 0, "C"), St(0, 0, 0, 1, "C"), St(0, 0, 0, 2, "C"),
      St(2, 2, 0, 0, "R"), St(2, 2, 0, 1, "R"), St(2, 2, 0, 2, "R"),
      St(2, 2, 2, 0, "L"), St(2, 2, 2, 2, "E")>>

\* the whole board, cell by cell, with a repeating pattern of categories
FillPattern == <<"R", "R", "L", "R", "C", "L", "E", "R", "L", "L", "C">>

ScriptFill ==
    [i \in 1..81 |->
        [pos |-> Pos((i - 1) \div 27, ((i - 1) \div 9) % 3, ((i - 1) \div 3) % 3, (i - 1) % 3),
         cat |-> FillPattern[((i - 1) % Len(FillPattern)) + 1]]]

\* a yard between two yards and a school, then four houses in the next block
ScriptSports ==
    <<St(0, 0, 0, 0, "L"), St(0, 0, 1, 1, "L"), St(0, 0, 0, 2, "E"), St(0, 0, 0, 1, "L"),
      St(0, 1, 0, 0, "R"), St(0, 1, 0, 1, "R"), St(0, 1, 0, 2, "R"), St(0, 1, 1, 0, "R")>>

\* three shops, then three houses on edge cells of the same block
ScriptHotel ==
    <<St(1, 1, 0, 0, "C"), St(1, 1, 0, 2, "C"), St(1, 1, 1, 1, "C"),
      St(1, 1, 2, 0, "R"), St(1, 1, 2, 1, "R"), St(1, 1, 2, 2, "R")>>

\* five schools in one block
ScriptUniversity ==
    <<St(2, 0, 0, 0, "E"), St(2, 0, 1, 1, "E"), St(2, 0, 2, 2, "E"), St(2, 0, 0, 1, "E"),
      St(2, 0, 1, 2, "E")>>

\* 20 residential and a school in the blocks around block (0,1), then four
\* houses and a school in block (0,1)
ScriptHighschool ==
    [i \in 1..9 |-> St(0, 0, (i - 1) \div 3, (i - 1) % 3, "R")]
    \o [i \in 1..9 |-> St(0, 2, (i - 1) \div 3, (i - 1) % 3, "R")]
    \o <<St(1, 1, 0, 0, "R"), St(1, 1, 0, 1, "R"), St(1, 1, 2, 2, "E")>>
    \o <<St(0, 1, 0, 0, "R"), St(0, 1, 0, 1, "R"), St(0, 1, 1, 1, "R"), St(0, 1, 2, 0, "R"),
         St(0, 1, 2, 2, "E")>>

\* eight yards in one block: the fourth and the sixth complete a 2x2 square,
\* the seventh makes the block a park
ScriptPark ==
    <<St(1, 0, 0, 0, "L"), St(1, 0, 0, 1, "L"), St(1, 0, 1, 0, "L"), St(1, 0, 1, 1, "L"),
      St(1, 0, 0, 2, "L"), St(1, 0, 1, 2, "L"), St(1, 0, 2, 0, "L"), St(1, 0, 2, 1, "L")>>

\* a yard beside two shops, the third shop of the cluster, a yard and a shop
\* placed beside the shopping centers, then a 2x2 leisure square beside them
ScriptCinema ==
    <<St(1, 2, 0, 0, "L"), St(1, 2, 0, 1, "C"), St(1, 2, 0, 2, "C"), St(1, 2, 1, 2, "C"),
      St(1, 2, 1, 1, "L"), St(1, 2, 2, 2, "C"),
      St(1, 2, 1, 0, "L"), St(1, 2, 2, 0, "L"), St(1, 2, 2, 1, "L")>>

\* a shop in block (2,0), then a yard, a shop, a school and four houses in
\* block (2,1): the fourth tier-2 residential appears after the shop
ScriptBankLate ==
    <<St(2, 0, 0, 0, "C"),
      St(2, 1, 0, 0, "L"), St(2, 1, 0, 1, "C"), St(2, 1, 0, 2, "E"),
      St(2, 1, 1, 0, "R"), St(2, 1, 1, 1, "R"), St(2, 1, 1, 2, "R"), St(2, 1, 2, 0, "R")>>

\* two yards on the east edge of block (0,0), two yards facing them on the
\* west edge of block (0,1), then two more yards in block (0,1) that complete
\* a 2x2 square there
ScriptPlazaEdge ==
    <<St(0, 0, 0, 2, "L"), St(0, 0, 1, 2, "L"), St(0, 1, 0, 0, "L"), St(0, 1, 1, 0, "L"),
      St(0, 1, 0, 1, "L"), St(0, 1, 1, 1, "L")>>

\* two shops on the east edge of block (2,0), two shops facing them on the
\* west edge of block (2,1), then a third shop in block (2,1)
ScriptShopsEdge ==
    <<St(2, 0, 0, 2, "C"), St(2, 0, 1, 2, "C"), St(2, 1, 0, 0, "C"), St(2, 1, 1, 0, "C"),
      St(2, 1, 2, 0, "C")>>

\* four houses that become slums, a yard that cures them, then two more
\* houses in the same block
ScriptSlumsOnce ==
    <<St(2, 2, 0, 0, "R"), St(2, 2, 0, 1, "R"), St(2, 2, 0, 2, "R"), St(2, 2, 1, 0, "R"),
      St(2, 2, 2, 2, "L"), St(2, 2, 2, 0, "R"), St(2, 2, 1, 1, "R")>>

Scripts ==
    <<ScriptRestaurant, ScriptBank, ScriptFill, ScriptSports,
      ScriptHotel, ScriptUniversity, ScriptHighschool, ScriptPark, ScriptCinema,
      ScriptBankLate, ScriptPlazaEdge, ScriptShopsEdge, ScriptSlumsOnce>>

RegionPlan == Len(Scripts) + 1

Plans == 0..RegionPlan

\* the plan of the test suite: a prefilled board, then one placeTile on Focus
PrefillPlan == RegionPlan + 1

RegionCellList ==
    <<Pos(2, 2, 1, 1), Pos(2, 2, 0, 1), Pos(2, 2, 0, 0), Pos(2, 2, 2, 2), Pos(2, 2, 1, 2),
      Pos(2, 2, 2, 0), Pos(2, 2, 1, 0), Pos(2, 2, 0, 2), Pos(2, 2, 2, 1)>>

RegionCells ==
    {RegionCellList[i] : i \in 1..(IF NumRegionCells < Len(RegionCellList)
                                   THEN NumRegionCells ELSE Len(RegionCellList))}

\* the categories generateRandomCategory may return for draw number i of the session
DrawSet(pl, i) ==
    IF pl = 0
    THEN IF i < MaxTurns THEN Categories ELSE {"R"}
    ELSE IF pl = RegionPlan
    THEN IF i = 4 THEN {"L", "E"} ELSE {"R"}
    ELSE IF pl = PrefillPlan THEN {"R"}
    ELSE IF i < Len(Scripts[pl]) THEN {Scripts[pl][i + 1].cat} ELSE {"R"}

\* the free plan stops after MaxTurns placements, the region plan after its
\* five; a script stops when it has no next cell to click
TurnCapped(pl, t) ==
    \/ (pl = 0 /\ t >= MaxTurns)
    \/ (pl = RegionPlan /\ t >= 5)
    \/ (pl = PrefillPlan /\ t >= 1)

\* the cell the test suite's placeTile clicks on a prefilled board: the centre
\* cell of block (0,1)
Focus == Pos(0, 1, 1, 1)

\* the cells the player may click after t placements: a script clicks its next
\* cell, or any cell it has clicked before
ClickCells(pl, t) ==
    IF pl = 0 THEN FreeCells
    ELSE IF pl = RegionPlan THEN RegionCells
    ELSE IF pl = PrefillPlan THEN {Focus}
    ELSE {Scripts[pl][i].pos : i \in {j \in 1..(t + 1) : j <= Len(Scripts[pl])}}

(***************************************************************************)
(* Prefilled boards.  The test suite empties the store (beforeEach),       *)
(* writes tiles with store.setCell (prefill), assigns store.deck and calls *)
(* placeTile.  A prefilled board is described by a record:                 *)
(*   focus     the tile at Focus, or Null when Focus is left empty         *)
(*   draw      the category assigned to store.deck, or "none"              *)
(*   ownC, ownE, ownL, ownR   how many commercial, education, leisure and  *)
(*             residential tiles the block of Focus holds besides Focus,   *)
(*             written in that order on the cells OwnOrder                 *)
(*   ownCKind, ownRKind       the kind of those commercial / residential   *)
(*   adjSC, adjE, adjR        the blocks orthogonally adjacent to the      *)
(*             block of Focus: adjSC shopping centers, one education tile  *)
(*             of kind adjE (or none), adjR[1] tiles alternating           *)
(*             tier2_residential and highrise, adjR[2] other residential   *)
(*   far       whether block (2,1), which is not adjacent, is filled       *)
(***************************************************************************)
OwnOrder == <<1, 0, 2, 3, 5, 6, 7, 8>>

AdjBlocks == getAdjacentSuperblocks(Focus.superblockRow, Focus.superblockCol)

HeavyKinds == <<"tier2_residential", "highrise">>

LightKinds == <<"house", "slums", "hotel", "villa">>

FarTiles ==
    <<"shopping_center", "university", "tier2_residential", "tier2_residential",
      "tier2_residential", "tier2_residential", "hotel", "hotel", "school">>

OwnTile(b, i) ==
    IF i = Focus.cellRow * 3 + Focus.cellCol THEN b.focus
    ELSE LET k == CHOOSE k \in 1..Len(OwnOrder) : OwnOrder[k] = i
         IN  IF k <= b.ownC THEN b.ownCKind
             ELSE IF k <= b.ownC + b.ownE THEN "school"
             ELSE IF k <= b.ownC + b.ownE + b.ownL THEN "yard"
             ELSE IF k <= b.ownC + b.ownE + b.ownL + b.ownR THEN b.ownRKind
             ELSE Null

\* the j-th cell (1..27) of the adjacent blocks, block after block
AdjTile(b, j) ==
    LET e == IF b.adjE = Null THEN 0 ELSE 1
        r == j - b.adjSC - e
    IN  IF j <= b.adjSC THEN "shopping_center"
        ELSE IF j <= b.adjSC + e THEN b.adjE
        ELSE IF r <= b.adjR[1] THEN HeavyKinds[((r - 1) % Len(HeavyKinds)) + 1]
        ELSE IF r <= b.adjR[1] + b.adjR[2]
        THEN LightKinds[((r - b.adjR[1] - 1) % Len(LightKinds)) + 1]
        ELSE Null

PrefillTile(b, sbr, sbc, i) ==
    IF sbr = Focus.superblockRow /\ sbc = Focus.superblockCol THEN OwnTile(b, i)
    ELSE IF \E n \in 1..Len(AdjBlocks) : AdjBlocks[n] = [sbRow |-> sbr, sbCol |-> sbc]
    THEN AdjTile(b, 9 * ((CHOOSE n \in 1..Len(AdjBlocks) :
                              AdjBlocks[n] = [sbRow |-> sbr, sbCol |-> sbc]) - 1) + i + 1)
    ELSE IF sbr = 2 /\ sbc = 1 /\ b.far THEN FarTiles[i + 1]
    ELSE Null

\* prefill(store, cells) on the emptied store
prefill(b) ==
    [sbr \in 0..2 |-> [sbc \in 0..2 |-> [i \in 0..8 |-> PrefillTile(b, sbr, sbc, i)]]]

\* boards around the thresholds of the Highrise candidate
HighriseBoards ==
    [focus : {"tier2_residential", "house", "highrise"}, draw : {"none"},
     ownC : {1}, ownCKind : {"shop"}, ownE : {0, 1}, ownL : {2, 3},
     ownR : {2}, ownRKind : {"tier2_residential"},
     adjSC : {0, 1}, adjE : {Null},
     adjR : {<<4, 3>>, <<4, 4>>, <<5, 0>>, <<0, 19>>, <<0, 20>>, <<3, 7>>},
     far : BOOLEAN]

\* boards around the thresholds of the High School candidate
HighschoolBoards ==
    [focus : {"school", "highschool", Null}, draw : {"E"},
     ownC : {0}, ownCKind : {"shop"}, ownE : {0, 1, 3}, ownL : {0},
     ownR : {0, 4}, ownRKind : {"hotel"},
     adjSC : {0}, adjE : {Null, "school", "highschool", "university"},
     adjR : {<<0, 19>>, <<0, 20>>, <<4, 15>>, <<4, 16>>},
     far : BOOLEAN]

\* boards around the thresholds of the Restaurant candidate
RestaurantBoards ==
    [focus : {"shop", Null}, draw : {"C"},
     ownC : {0, 1}, ownCKind : {"shop", "shopping_center", "restaurant"},
     ownE : {0}, ownL : {0},
     ownR : {0, 1}, ownRKind : {"hotel"},
     adjSC : {0}, adjE : {Null},
     adjR : {<<0, 8>>, <<0, 9>>, <<0, 10>>, <<8, 1>>, <<8, 2>>},
     far : BOOLEAN]

\* slums beside a shop, a school or a yard: the placed tile completes, or
\* does not complete, the Tier-2 conditions of the block
SlumsBoards ==
    [focus : {Null}, draw : {"L", "E"},
     ownC : {0, 1}, ownCKind : {"shop"}, ownE : {0, 1}, ownL : {0, 1},
     ownR : {3, 4}, ownRKind : {"slums"},
     adjSC : {0}, adjE : {Null}, adjR : {<<0, 0>>}, far : {FALSE}]

PrefillBoards == HighriseBoards \cup HighschoolBoards \cup RestaurantBoards \cup SlumsBoards

(***************************************************************************)
(* gameStore.ts: the store                                                 *)
(***************************************************************************)
NoPos == Pos(0 - 1, 0 - 1, 0 - 1, 0 - 1)

\* the value returned by getUpgradeInfo: null, or the candidate map
NullInfo == [isNull |-> TRUE]

InfoOf(upgrades) == [isNull |-> FALSE, upgrades |-> upgrades]

NoInfo == [pos |-> NoPos, ret |-> NullInfo, n |-> 0,
           first |-> [pos |-> NoPos, ret |-> NullInfo]]

\* the cells the pointer may hover: those the plan may click; a script hovers
\* the cell it clicked last and the one it clicks next, and once it has ended
\* every cell it clicked
HoverCells(pl, t) ==
    IF pl = 0 THEN FreeCells
    ELSE IF pl = RegionPlan THEN RegionCells
    ELSE IF pl = PrefillPlan THEN {Focus}
    ELSE IF t >= Len(Scripts[pl]) THEN {Scripts[pl][i].pos : i \in 1..Len(Scripts[pl])}
    ELSE {Scripts[pl][i].pos : i \in {j \in {t, t + 1} : j >= 1}}

\* the place of a cell in reading order
CellIndex(pos) ==
    ((pos.superblockRow * 3 + pos.superblockCol) * 3 + pos.cellRow) * 3 + pos.cellCol

\* the pointer leaves pos for the hover cell that follows it in reading order,
\* the first one after the last
NextHover(pl, t, pos) ==
    LET later == {q \in HoverCells(pl, t) : CellIndex(q) > CellIndex(pos)}
        from == IF later = {} THEN HoverCells(pl, t) ELSE later
    IN  CHOOSE q \in from : \A r \in from : CellIndex(q) <= CellIndex(r)

Call(op, pos, ret) == [op |-> op, pos |-> pos, ret |-> ret]

EmptyGrid == [sbr \in 0..2 |-> [sbc \in 0..2 |-> [i \in 0..8 |-> Null]]]

generateRandomCategory(pl, i) == DrawSet(pl, i)

\* every deck fillDeck can leave: pushes drawn categories while length < DECK_SIZE
fillDeck(d, t, pl) ==
    LET fill[dk \in Seq(Categories)] ==
            IF Len(dk) < DECK_SIZE
            THEN UNION {fill[Append(dk, c)] : c \in generateRandomCategory(pl, t + Len(dk))}
            ELSE {dk}
    IN  fill[d]

cellsFilled(g) ==
    Cardinality({x \in (0..2) \X (0..2) \X (0..8) : g[x[1]][x[2]][x[3]] # Null})

\* mutant: > instead of >=
isGameOver_Strict(g) == cellsFilled(g) > TOTAL_CELLS

isGameOver(g) == cellsFilled(g) >= TOTAL_CELLS

SuperblockPositions(sbRow, sbCol) ==
    [i \in 1..9 |-> Pos(sbRow, sbCol, (i - 1) \div 3, (i - 1) % 3)]

AllMet(result) ==
    \A i \in 1..Len(result.conditions) : result.conditions[i].met

\* mutant: the scan does not stop at the first match
priorityScan_NoBreak(upgrades, currentTile) ==
    LET applies(i) ==
            /\ upgradePriority[i] # currentTile
            /\ upgradePriority[i] \in DOMAIN upgrades
            /\ upgrades[upgradePriority[i]].verdict = "can_upgrade"
            /\ AllMet(upgrades[upgradePriority[i]])
    IN  IF \E i \in 1..Len(upgradePriority) : applies(i)
        THEN upgradePriority[CHOOSE i \in 1..Len(upgradePriority) :
                applies(i) /\ \A j \in (i + 1)..Len(upgradePriority) : ~applies(j)]
        ELSE Null

\* the priority scan of runRebuildPhase: the first kind of upgradePriority,
\* other than the current one, whose candidate has every condition met
priorityScan(upgrades, currentTile) ==
    LET applies(i) ==
            /\ upgradePriority[i] # currentTile
            /\ upgradePriority[i] \in DOMAIN upgrades
            /\ upgrades[upgradePriority[i]].verdict = "can_upgrade"
            /\ AllMet(upgrades[upgradePriority[i]])
    IN  IF \E i \in 1..Len(upgradePriority) : applies(i)
        THEN upgradePriority[CHOOSE i \in 1..Len(upgradePriority) :
                applies(i) /\ \A j \in 1..(i - 1) : ~applies(j)]
        ELSE Null

\* the candidate map is computed once and then scanned
findAppliedUpgrade(g, currentTile, pos) ==
    CHOOSE applied \in {priorityScan(upgrades, currentTile) :
                            upgrades \in {getUpgradesForTile(g, currentTile, pos)}} : TRUE

\* mutant: the sign of the delta is lost
Points_Unsigned(tile) ==
    IF tile \in DOMAIN upgradeScores
    THEN (IF upgradeScores[tile] < 0 THEN 0 - upgradeScores[tile] ELSE upgradeScores[tile])
    ELSE 0

Points(tile) == IF tile \in DOMAIN upgradeScores THEN upgradeScores[tile] ELSE 0

\* mutant: the adjacent superblocks are not appended
Requeue_OwnBlockOnly(g, pos) ==
    LET neighbors == getAdjacentCells(g, pos)
    IN  [i \in 1..Len(neighbors) |-> neighbors[i].pos]
        \o SuperblockPositions(pos.superblockRow, pos.superblockCol)
        \o <<pos>>

\* mutant: only the neighbours of the changed cell and the cell itself are appended
Requeue_NeighboursOnly(g, pos) ==
    LET neighbors == getAdjacentCells(g, pos)
    IN  [i \in 1..Len(neighbors) |-> neighbors[i].pos] \o <<pos>>

\* what an applied change appends to the queue
Requeue(g, pos) ==
    LET neighbors == getAdjacentCells(g, pos)
        adjSuperblocks == getAdjacentSuperblocks(pos.superblockRow, pos.superblockCol)
    IN  [i \in 1..Len(neighbors) |-> neighbors[i].pos]
        \o SuperblockPositions(pos.superblockRow, pos.superblockCol)
        \o [k \in 1..(9 * Len(adjSuperblocks)) |->
                Pos(adjSuperblocks[((k - 1) \div 9) + 1].sbRow,
                    adjSuperblocks[((k - 1) \div 9) + 1].sbCol,
                    ((k - 1) % 9) \div 3, (k - 1) % 3)]
        \o <<pos>>

\* mutant: only the placed cell is queued
RebuildSeed_StartOnly(startPos) == <<startPos>>

RebuildSeed(startPos) ==
    SuperblockPositions(startPos.superblockRow, startPos.superblockCol)

\* mutant: the occupied-cell test is missing
placeTileRejects_DeckOnly(g, d, pos) == Len(d) = 0

placeTileRejects(g, d, pos) == getCell(g, pos) # Null \/ Len(d) = 0

Init ==
    /\ plan \in Plans
    /\ grid = EmptyGrid
    /\ score = 0
    /\ turn = 0
    /\ exSlums = {}
    /\ deck \in fillDeck(<<>>, 0, plan)
    /\ pc = "idle"
    /\ queue = <<>>
    /\ visited = {}
    /\ upgradeCount = 0
    /\ changes = <<>>
    /\ last = Call("createGameStore", NoPos, "void")
    /\ hoveredCell = NoPos
    /\ info = NoInfo

\* mutant: the evaluation looks at the hovered cell when there is one
getUpgradeInfo_OfHoveredCell(g, pos) ==
    LET at == IF hoveredCell = NoPos THEN pos ELSE hoveredCell
        tile == getCell(g, at)
    IN  IF tile = Null THEN NullInfo
        ELSE InfoOf(getUpgradesForTile(g, tile, at))

getUpgradeInfo(g, pos) ==
    LET tile == getCell(g, pos)
    IN  IF tile = Null THEN NullInfo
        ELSE InfoOf(getUpgradesForTile(g, tile, pos))

\* store.setHoveredCell(pos), pos a position or null (NoPos).  The pointer is
\* explored along one path between two placements: after a first
\* getUpgradeInfo call it enters the hover cell that follows the position
\* asked, and when the call back on that position has returned it leaves the
\* board.
SetHoveredCell(pos) ==
    /\ pc = "idle"
    /\ last.op = "getUpgradeInfo"
    /\ IF pos = NoPos
       THEN hoveredCell # NoPos /\ info.n >= 2 /\ info.pos = info.first.pos
       ELSE hoveredCell = NoPos /\ info.n = 1 /\ pos = NextHover(plan, turn, info.pos)
    /\ hoveredCell' = pos
    /\ last' = Call("setHoveredCell", pos, "void")
    /\ UNCHANGED <<grid, deck, score, turn, pc, queue, visited, upgradeCount, changes, plan,
                   exSlums, info>>

\* mutant: the evaluation counts as a turn
GetUpgradeInfo_CountsTurn(pos) ==
    /\ pc = "idle"
    /\ last.op \in {"placeTile", "getUpgradeInfo", "setHoveredCell", "prefill"}
    /\ last.ret # "false"
    /\ IF info.n = 0 THEN TRUE
       ELSE IF info.n = 1
       THEN pos = (IF hoveredCell = NoPos THEN info.pos ELSE hoveredCell)
       ELSE /\ info.n = 2 /\ hoveredCell # NoPos
            /\ info.pos # info.first.pos /\ pos = info.first.pos
    /\ info' = [pos |-> pos, ret |-> getUpgradeInfo(grid, pos), n |-> info.n + 1,
                first |-> IF info.n = 0
                          THEN [pos |-> pos, ret |-> getUpgradeInfo(grid, pos)]
                          ELSE info.first]
    /\ last' = Call("getUpgradeInfo", pos, "void")
    /\ turn' = IF getCell(grid, pos) = Null THEN turn ELSE turn + 1
    /\ UNCHANGED <<grid, deck, score, pc, queue, visited, upgradeCount, changes, plan, exSlums, hoveredCell>>

\* store.getUpgradeInfo(pos): no field of the store is assigned.  The call is
\* explored on the boards that completed placements and prefills leave, up to
\* three calls between two placements: a first call with the pointer off the
\* board; then either the same call again, or, once the pointer has entered
\* another cell (setHoveredCell, under HoverSpec), a call on that cell and a
\* call back on the first position.  info keeps the value returned last and
\* the value the first of these calls returned.
GetUpgradeInfo(pos) ==
    /\ pc = "idle"
    /\ last.op \in {"placeTile", "getUpgradeInfo", "setHoveredCell", "prefill"}
    /\ last.ret # "false"
    /\ IF info.n = 0 THEN TRUE
       ELSE IF info.n = 1
       THEN pos = (IF hoveredCell = NoPos THEN info.pos ELSE hoveredCell)
       ELSE /\ info.n = 2 /\ hoveredCell # NoPos
            /\ info.pos # info.first.pos /\ pos = info.first.pos
    /\ info' = [pos |-> pos, ret |-> getUpgradeInfo(grid, pos), n |-> info.n + 1,
                first |-> IF info.n = 0
                          THEN [pos |-> pos, ret |-> getUpgradeInfo(grid, pos)]
                          ELSE info.first]
    /\ last' = Call("getUpgradeInfo", pos, "void")
    /\ UNCHANGED <<grid, deck, score, turn, pc, queue, visited, upgradeCount, changes, plan, exSlums, hoveredCell>>

\* mutant: a partial reset, the score is kept
InitCall_KeepsScore ==
    /\ pc = "idle"
    /\ last.ret # "false"
    /\ last.op \notin {"getUpgradeInfo", "setHoveredCell"}
    /\ grid' = EmptyGrid
    /\ turn' = 0
    /\ exSlums' = {}
    /\ changes' = <<>>
    /\ deck' \in fillDeck(<<>>, 0, plan)
    /\ last' = Call("init", NoPos, "void")
    /\ info' = NoInfo
    /\ UNCHANGED <<score, pc, queue, visited, upgradeCount, plan, hoveredCell>>

\* store.init().  A rejected placeTile and a getUpgradeInfo leave the store as
\* it was, so init is explored from the state before such a call only, and
\* with the pointer off the board.
InitCall ==
    /\ pc = "idle"
    /\ last.ret # "false"
    /\ last.op \notin {"getUpgradeInfo", "setHoveredCell"}
    /\ grid' = EmptyGrid
    /\ score' = 0
    /\ turn' = 0
    /\ exSlums' = {}
    /\ changes' = <<>>
    /\ deck' \in fillDeck(<<>>, 0, plan)
    /\ last' = Call("init", NoPos, "void")
    /\ info' = NoInfo
    /\ UNCHANGED <<pc, queue, visited, upgradeCount, plan, hoveredCell>>

\* the test suite's direct write store.deck = []
ClearDeck ==
    /\ pc = "idle"
    /\ last.op \notin {"getUpgradeInfo", "setHoveredCell"}
    /\ deck # <<>>
    /\ deck' = <<>>
    /\ last' = Call("clearDeck", NoPos, "void")
    /\ UNCHANGED <<grid, score, turn, pc, queue, visited, upgradeCount, changes, plan, exSlums, info, hoveredCell>>

\* store.placeTile(pos), one of the two early returns.  Placements are
\* explored with the pointer off the board (hoveredCell is null, as in the
\* test suite).
PlaceTileRejected(pos) ==
    /\ pc = "idle"
    /\ hoveredCell = NoPos
    /\ placeTileRejects(grid, deck, pos)
    /\ last' = Call("placeTile", pos, "false")
    /\ info' = NoInfo
    /\ UNCHANGED <<grid, deck, score, turn, pc, queue, visited, upgradeCount, changes, plan, exSlums, hoveredCell>>

\* store.placeTile(pos) up to the first test of the while loop of runRebuildPhase
PlaceTile(pos) ==
    /\ pc = "idle"
    /\ hoveredCell = NoPos
    /\ ~TurnCapped(plan, turn)
    /\ ~placeTileRejects(grid, deck, pos)
    /\ LET category == Head(deck)
           tile == categoryToDefaultTile[category]
       IN  /\ deck' = Tail(deck)
           /\ grid' = setCell(grid, pos, tile)
    /\ turn' = turn + 1
    /\ upgradeCount' = 0
    /\ changes' = <<>>
    /\ queue' = RebuildSeed(pos)
    /\ visited' = {}
    /\ pc' = "rebuild"
    /\ last' = Call("placeTile", pos, "pending")
    /\ info' = NoInfo
    /\ UNCHANGED <<score, plan, exSlums, hoveredCell>>

\* mutant: an applied change does not clear the visited set
RebuildStep_KeepsVisited ==
    /\ pc = "rebuild"
    /\ queue # <<>>
    /\ IF upgradeCount >= MAX_UPGRADES
       THEN /\ pc' = "error"
            /\ last' = [last EXCEPT !.ret = "throw"]
            /\ UNCHANGED <<grid, deck, score, turn, queue, visited, upgradeCount, changes, plan, exSlums, info, hoveredCell>>
       ELSE LET pos == Head(queue)
                currentTile == getCell(grid, pos)
                appliedUpgrade == findAppliedUpgrade(grid, currentTile, pos)
            IN  IF pos \in visited
                THEN /\ queue' = Tail(queue)
                     /\ UNCHANGED <<grid, deck, score, turn, pc, visited, upgradeCount, changes, last, plan, exSlums, info, hoveredCell>>
                ELSE IF currentTile = Null
                THEN /\ queue' = Tail(queue)
                     /\ visited' = visited \cup {pos}
                     /\ UNCHANGED <<grid, deck, score, turn, pc, upgradeCount, changes, last, plan, exSlums, info, hoveredCell>>
                ELSE IF appliedUpgrade # Null
                THEN /\ grid' = setCell(grid, pos, appliedUpgrade)
                     /\ upgradeCount' = upgradeCount + 1
                     /\ changes' = Append(changes, [pos |-> pos, from |-> currentTile, to |-> appliedUpgrade])
                     /\ score' = score + Points(appliedUpgrade)
                     /\ queue' = Tail(queue) \o Requeue(grid, pos)
                     /\ exSlums' = IF currentTile = "slums" THEN exSlums \cup {pos} ELSE exSlums
                     /\ UNCHANGED <<deck, turn, pc, visited, last, plan, info, hoveredCell>>
                ELSE /\ queue' = Tail(queue)
                     /\ visited' = visited \cup {pos}
                     /\ UNCHANGED <<grid, deck, score, turn, pc, upgradeCount, changes, last, plan, exSlums, info, hoveredCell>>

\* one iteration of the while loop of runRebuildPhase
RebuildStep ==
    /\ pc = "rebuild"
    /\ queue # <<>>
    /\ IF upgradeCount >= MAX_UPGRADES
       THEN /\ pc' = "error"
            /\ last' = [last EXCEPT !.ret = "throw"]
            /\ UNCHANGED <<grid, deck, score, turn, queue, visited, upgradeCount, changes, plan, exSlums, info, hoveredCell>>
       ELSE LET pos == Head(queue)
                currentTile == getCell(grid, pos)
                appliedUpgrade == findAppliedUpgrade(grid, currentTile, pos)
            IN  IF pos \in visited
                THEN /\ queue' = Tail(queue)
                     /\ UNCHANGED <<grid, deck, score, turn, pc, visited, upgradeCount, changes, last, plan, exSlums, info, hoveredCell>>
                ELSE IF currentTile = Null
                THEN /\ queue' = Tail(queue)
                     /\ visited' = visited \cup {pos}
                     /\ UNCHANGED <<grid, deck, score, turn, pc, upgradeCount, changes, last, plan, exSlums, info, hoveredCell>>
                ELSE IF appliedUpgrade # Null
                THEN /\ grid' = setCell(grid, pos, appliedUpgrade)
                     /\ upgradeCount' = upgradeCount + 1
                     /\ changes' = Append(changes, [pos |-> pos, from |-> currentTile, to |-> appliedUpgrade])
                     /\ score' = score + Points(appliedUpgrade)
                     /\ visited' = {}
                     /\ queue' = Tail(queue) \o Requeue(grid, pos)
                     /\ exSlums' = IF currentTile = "slums" THEN exSlums \cup {pos} ELSE exSlums
                     /\ UNCHANGED <<deck, turn, pc, last, plan, info, hoveredCell>>
                ELSE /\ queue' = Tail(queue)
                     /\ visited' = visited \cup {pos}
                     /\ UNCHANGED <<grid, deck, score, turn, pc, upgradeCount, changes, last, plan, exSlums, info, hoveredCell>>

\* the loop of runRebuildPhase has ended: fillDeck and return true
PlaceTileReturn ==
    /\ pc = "rebuild"
    /\ queue = <<>>
    /\ deck' \in fillDeck(deck, turn, plan)
    /\ pc' = "idle"
    /\ last' = [last EXCEPT !.ret = "true"]
    /\ UNCHANGED <<grid, score, turn, queue, visited, upgradeCount, changes, plan, exSlums, info, hoveredCell>>

Next ==
    \/ InitCall
    \/ ClearDeck
    \/ \E pos \in ClickCells(plan, turn) : PlaceTileRejected(pos)
    \/ \E pos \in ClickCells(plan, turn) : PlaceTile(pos)
    \/ RebuildStep
    \/ PlaceTileReturn
    \/ \E pos \in HoverCells(plan, turn) : GetUpgradeInfo(pos)

Spec == Init /\ [][Next]_vars

\* the same store with a pointer: setHoveredCell is called between the
\* getUpgradeInfo calls
HoverNext ==
    \/ InitCall
    \/ ClearDeck
    \/ \E pos \in ClickCells(plan, turn) : PlaceTileRejected(pos)
    \/ \E pos \in ClickCells(plan, turn) : PlaceTile(pos)
    \/ RebuildStep
    \/ PlaceTileReturn
    \/ \E pos \in HoverCells(plan, turn) : GetUpgradeInfo(pos)
    \/ \E pos \in HoverCells(plan, turn) \cup {NoPos} : SetHoveredCell(pos)

HoverSpec == Init /\ [][HoverNext]_vars

\* the test suite's setup: the store is emptied, a board is prefilled and
\* store.deck is assigned
PrefillInit ==
    /\ plan = PrefillPlan
    /\ \E b \in PrefillBoards :
           /\ grid = prefill(b)
           /\ deck = IF b.draw = "none" \/ b.focus # Null THEN <<>> ELSE <<b.draw>>
    /\ score = 0
    /\ turn = 0
    /\ exSlums = {}
    /\ pc = "idle"
    /\ queue = <<>>
    /\ visited = {}
    /\ upgradeCount = 0
    /\ changes = <<>>
    /\ last = Call("prefill", NoPos, "void")
    /\ hoveredCell = NoPos
    /\ info = NoInfo

\* a test: one placeTile on Focus, and getUpgradeInfo on Focus
PrefillNext ==
    \/ \E pos \in ClickCells(plan, turn) : PlaceTile(pos)
    \/ RebuildStep
    \/ PlaceTileReturn
    \/ \E pos \in HoverCells(plan, turn) : GetUpgradeInfo(pos)

PrefillSpec == PrefillInit /\ [][PrefillNext]_vars

(***************************************************************************)
(* Helpers of the claims                                                   *)
(***************************************************************************)
\* the superblocks in which the running or last rebuild phase applied a change
changedBlocks ==
    {<<changes[i].pos.superblockRow, changes[i].pos.superblockCol>> : i \in 1..Len(changes)}

Occupied(g) == {pos \in Positions : getCell(g, pos) # Null}

\* the candidate for kind k of the tile at pos is can_upgrade with every condition met
Satisfied(g, pos, k) ==
    LET upgrades == getUpgradesForTile(g, getCell(g, pos), pos)
    IN  /\ k \in DOMAIN upgrades
        /\ upgrades[k].verdict = "can_upgrade"
        /\ \A i \in 1..Len(upgrades[k].conditions) : upgrades[k].conditions[i].met

\* some kind other than the current one is satisfied for the tile at pos
Unstable(g, pos) ==
    \E k \in TileTypes \ {getCell(g, pos)} : Satisfied(g, pos, k)

PlacementReturned == pc = "idle" /\ last.op = "placeTile" /\ last.ret = "true"

\* C1 (as claimed): after every placeTile that returned true, no occupied cell of
\* the board has a satisfied candidate for a kind other than its own.
C1_FixedPointEverywhere ==
    PlacementReturned => \A pos \in Occupied(grid) : ~Unstable(grid, pos)

\* a step that is a call of placeTile (accepted or rejected)
PlaceTileCallStep == pc = "idle" /\ last'.op = "placeTile" /\ last' # last

\* a step that is a call of init
InitCallStep == pc = "idle" /\ last'.op = "init"

\* the occupied cells whose kind differs after the step
KindChanges ==
    IF grid' = grid THEN {}
    ELSE {pos \in Occupied(grid) : getCell(grid', pos) # getCell(grid, pos)}

\* C2: no rebuild phase throws the limit error: the applied-change counter
\* stays below MAX_UPGRADES (it never exceeds two changes per occupied cell).
\* The phase terminates with an empty queue: an iteration that applies no
\* change removes one position from the queue, the number of iterations that
\* apply a change is bounded by the counter, and the phase is left only with
\* the queue empty and placeTile returning true.
C2_NoLimitAndTermination ==
    [][/\ pc' # "error"
       /\ upgradeCount' < MAX_UPGRADES
       /\ pc' = "rebuild" => upgradeCount' <= 2 * cellsFilled(grid')
       /\ (pc = "rebuild" /\ pc' = "rebuild" /\ KindChanges = {}) =>
              (queue' = Tail(queue) /\ upgradeCount' = upgradeCount)
       /\ (pc = "rebuild" /\ pc' = "rebuild" /\ KindChanges # {}) =>
              upgradeCount' = upgradeCount + 1
       /\ (pc = "rebuild" /\ pc' # "rebuild") =>
              (queue = <<>> /\ pc' = "idle" /\ last'.ret = "true")]_vars

\* C2 witness: a rebuild phase that applied several changes has ended
C2_Witness ==
    PlacementReturned /\ upgradeCount >= 4 /\ queue = <<>>

\* C3: score changes only by upgradeScores[new kind] (0 for house) at a kind
\* change applied by the rebuild phase, once per change, and by the reset of
\* init; writing the placed tile adds nothing.
C3_ScoreIsSumOfDeltas ==
    [][IF InitCallStep
       THEN score' = 0
       ELSE /\ Cardinality(KindChanges) <= 1
            /\ \A pos \in KindChanges :
                   LET new == getCell(grid', pos)
                   IN  score' = score + (IF new \in DOMAIN upgradeScores
                                         THEN upgradeScores[new] ELSE 0)
            /\ KindChanges = {} => score' = score]_vars

\* C3 witness: positive and negative deltas have been summed
C3_Witness ==
    /\ PlacementReturned
    /\ Cardinality({p \in Occupied(grid) : getCell(grid, p) = "slums"}) = 4
    /\ Cardinality({p \in Occupied(grid) : getCell(grid, p) = "sports"}) = 1
    /\ score = 8 - 24

\* C4: placeTile on an occupied cell, or with an empty deck, returns false,
\* leaves grid, deck, score and turn unchanged and starts no rebuild phase;
\* placeTile returns false in no other case.
C4_RejectedPlacementChangesNothing ==
    [][PlaceTileCallStep =>
        IF getCell(grid, last'.pos) # Null \/ deck = <<>>
        THEN /\ last'.ret = "false"
             /\ UNCHANGED <<grid, deck, score, turn>>
             /\ pc' = "idle"
             /\ UNCHANGED <<queue, visited, upgradeCount>>
        ELSE last'.ret = "pending" /\ pc' = "rebuild"]_vars

\* C4 witness: a rejected call on an occupied cell, after some placements
C4_Witness ==
    /\ pc = "idle" /\ last.op = "placeTile" /\ last.ret = "false"
    /\ getCell(grid, last.pos) # Null
    /\ deck # <<>>
    /\ turn >= 2

\* C5: the number of occupied cells never decreases between two init calls:
\* an accepted placeTile raises it by exactly 1, a rejected one leaves it
\* unchanged, the rebuild phase neither empties nor fills a cell, and the
\* count always equals the number of successful placements of the session
\* (so it is 81 only after the 81st).
C5_OccupiedCountMonotone ==
    [][IF grid' = grid
       THEN turn' = turn /\ ~(PlaceTileCallStep /\ last'.ret = "pending")
       ELSE IF InitCallStep
       THEN grid' = EmptyGrid /\ turn' = 0
       ELSE LET before == cellsFilled(grid)
                after == cellsFilled(grid')
       IN  /\ before = turn
           /\ after = turn'
           /\ after >= before
           /\ (PlaceTileCallStep /\ last'.ret = "pending") =>
                  /\ after = before + 1
                  /\ turn' = turn + 1
           /\ (PlaceTileCallStep /\ last'.ret = "false") => after = before
           /\ pc = "rebuild" =>
                  \A pos \in Positions :
                      (getCell(grid', pos) = Null) <=> (getCell(grid, pos) = Null)]_vars

\* C5 witness: a rebuild phase changed kinds on a board with 7 tiles after 7 placements
C5_Witness ==
    /\ pc = "rebuild" /\ upgradeCount >= 1
    /\ turn = 7 /\ cellsFilled(grid) = 7

AllOccupied(g) == \A pos \in Positions : getCell(g, pos) # Null

\* C6: isGameOver is true exactly when all 81 cells are occupied; while it is
\* true placeTile is rejected at every position, and every placeTile call
\* returns false and changes nothing (until init).
C6_GameOverIsTerminal ==
    [][/\ grid = EmptyGrid => (isGameOver(grid) <=> AllOccupied(grid))
       /\ grid' # grid => (isGameOver(grid') <=> AllOccupied(grid'))
       /\ (pc = "idle" /\ AllOccupied(grid)) =>
              \A pos \in Positions : placeTileRejects(grid, deck, pos)
       /\ (PlaceTileCallStep /\ AllOccupied(grid)) =>
              /\ last'.ret = "false"
              /\ UNCHANGED <<grid, deck, score, turn, pc>>]_vars

\* C6 witness: a placeTile call was rejected on the full board
C6_Witness ==
    /\ isGameOver(grid) /\ cellsFilled(grid) = 81
    /\ pc = "idle" /\ last.op = "placeTile" /\ last.ret = "false"
    /\ Len(deck) = 5

DefaultKind(category) ==
    CASE category = "R" -> "house"
      [] category = "L" -> "yard"
      [] category = "C" -> "shop"
      [] category = "E" -> "school"

\* C7: an accepted placeTile(pos) removes exactly the head of the deck, writes
\* the default kind of that category to pos and to no other cell, adds 1 to
\* turn, leaves score alone, and starts a rebuild phase whose queue holds the
\* 9 cells of the block of pos, with nothing visited and no change applied.
C7_AcceptedPlacement ==
    [][(PlaceTileCallStep /\ last'.ret = "pending") =>
        /\ deck # <<>>
        /\ Len(deck') = Len(deck) - 1
        /\ \A i \in 1..Len(deck') : deck'[i] = deck[i + 1]
        /\ \A p \in Positions :
               getCell(grid', p) = IF p = last'.pos THEN DefaultKind(deck[1])
                                   ELSE getCell(grid, p)
        /\ turn' = turn + 1
        /\ score' = score
        /\ pc' = "rebuild"
        /\ Len(queue') = 9
        /\ {queue'[i] : i \in 1..Len(queue')} =
               {p \in Positions : /\ p.superblockRow = last'.pos.superblockRow
                                  /\ p.superblockCol = last'.pos.superblockCol}
        /\ visited' = {}
        /\ upgradeCount' = 0]_vars

\* C7 witness: a placement has just been written and its rebuild phase seeded
C7_Witness ==
    /\ pc = "rebuild" /\ last.ret = "pending" /\ upgradeCount = 0 /\ visited = {}
    /\ Len(queue) = 9 /\ Len(deck) = 4 /\ turn = 3
    /\ getCell(grid, last.pos) = "school"

\* a loop iteration that examines an occupied, unvisited cell
ExamineStep ==
    /\ pc = "rebuild" /\ queue # <<>> /\ upgradeCount < MAX_UPGRADES
    /\ Head(queue) \notin visited
    /\ getCell(grid, Head(queue)) # Null

ClaimOrder ==
    <<"highrise", "park", "bank", "university", "tier2_residential", "shopping_center",
      "restaurant", "plaza", "cinema", "highschool", "villa", "hotel", "sports",
      "playground", "house", "slums">>

\* the kinds other than the current one whose candidate is can_upgrade with every condition met
Qualifying(g, pos) ==
    LET upgrades == getUpgradesForTile(g, getCell(g, pos), pos)
    IN  {k \in DOMAIN upgrades \ {getCell(g, pos)} :
            /\ upgrades[k].verdict = "can_upgrade"
            /\ \A i \in 1..Len(upgrades[k].conditions) : upgrades[k].conditions[i].met}

\* only the cell at pos differs between grid and grid', and it holds kind k in grid'
OnlyChange(pos, k) ==
    /\ getCell(grid', pos) = k
    /\ \A sbr \in 0..2, sbc \in 0..2, i \in 0..8 :
           (sbr # pos.superblockRow \/ sbc # pos.superblockCol
                \/ i # pos.cellRow * 3 + pos.cellCol)
               => grid'[sbr][sbc][i] = grid[sbr][sbc][i]

\* C8: each examination of an occupied cell applies at most one kind change;
\* the kind applied is the first kind of the fixed order that differs from the
\* current kind and whose candidate is can_upgrade with every condition met;
\* when no kind qualifies the cell is unchanged and marked visited.
C8_FirstQualifyingKind ==
    [][ExamineStep =>
        LET pos == Head(queue)
            qualifying == Qualifying(grid, pos)
            ranks == {i \in 1..Len(ClaimOrder) : ClaimOrder[i] \in qualifying}
        IN  IF ranks = {}
            THEN grid' = grid /\ pos \in visited' /\ score' = score
            ELSE LET first == CHOOSE i \in ranks : \A j \in ranks : i <= j
                 IN  /\ OnlyChange(pos, ClaimOrder[first])
                     /\ getCell(grid', pos) # getCell(grid, pos)
                     /\ upgradeCount' = upgradeCount + 1]_vars

\* C8 witness: an examination has just turned a shop into a bank although its
\* shopping_center candidate (valid cluster) was satisfied too
C8_Witness ==
    /\ pc = "rebuild" /\ visited = {} /\ upgradeCount >= 1 /\ queue # <<>>
    /\ LET pos == queue[Len(queue)]
           cluster == findConnectedCommercialCluster(grid, pos)
       IN  /\ getCell(grid, pos) = "bank"
           /\ cluster.size >= 3 /\ cluster.touchesRoad

AdjacentOfCategory(g, pos, category) ==
    {p \in {Pos(pos.superblockRow, pos.superblockCol, r, c) : r \in 0..2, c \in 0..2} :
        /\ \/ (p.cellRow = pos.cellRow /\ (p.cellCol - pos.cellCol) \in {-1, 1})
           \/ (p.cellCol = pos.cellCol /\ (p.cellRow - pos.cellRow) \in {-1, 1})
        /\ getCell(g, p) # Null
        /\ tileToCategory[getCell(g, p)] = category}

AboveSports ==
    {"highrise", "park", "bank", "university", "tier2_residential", "shopping_center",
     "restaurant", "plaza", "cinema", "highschool", "villa", "hotel"}

\* C9: when a yard is examined with at least 2 orthogonally adjacent leisure
\* tiles and at least 1 orthogonally adjacent education tile, both the Sports
\* and the Playground candidates are satisfied and Sports is chosen over
\* Playground: the cell does not become playground, and it becomes sports
\* with score +8 when no candidate ranked above sports is satisfied.
C9_SportsOverPlayground ==
    [][(/\ ExamineStep
        /\ getCell(grid, Head(queue)) = "yard"
        /\ Cardinality(AdjacentOfCategory(grid, Head(queue), "L")) >= 2
        /\ Cardinality(AdjacentOfCategory(grid, Head(queue), "E")) >= 1) =>
        LET pos == Head(queue)
            qualifying == Qualifying(grid, pos)
        IN  /\ {"sports", "playground"} \subseteq qualifying
            /\ getCell(grid', pos) # "playground"
            /\ getCell(grid', pos) # "yard"
            /\ qualifying \cap AboveSports = {} =>
                   /\ getCell(grid', pos) = "sports"
                   /\ score' = score + 8]_vars

\* C9 witness: the examination has just turned a yard with 2 adjacent leisure
\* tiles and an adjacent school into sports
C9_Witness ==
    /\ pc = "rebuild" /\ visited = {} /\ upgradeCount = 1 /\ queue # <<>>
    /\ LET pos == queue[Len(queue)]
       IN  /\ getCell(grid, pos) = "sports"
           /\ Cardinality(AdjacentOfCategory(grid, pos, "L")) >= 2
           /\ Cardinality(AdjacentOfCategory(grid, pos, "E")) >= 1
    /\ score = 8

\* the connected set of commercial cells of the block of pos that contains pos
RECURSIVE Grow(_, _)
Grow(g, cells) ==
    LET more == cells \cup UNION {AdjacentOfCategory(g, p, "C") : p \in cells}
    IN  IF more = cells THEN cells ELSE Grow(g, more)

CommercialCluster(g, pos) == Grow(g, {pos})

OnRegionEdge(p) == p.cellRow \in {0, 2} \/ p.cellCol \in {0, 2}

NoAdjacentShoppingCenter(g, pos) ==
    \A p \in AdjacentOfCategory(g, pos, "C") : getCell(g, p) # "shopping_center"

\* a shop without adjacent shopping_center is examined while its cluster has n cells
ShopExamined(n) ==
    /\ ExamineStep
    /\ getCell(grid, Head(queue)) = "shop"
    /\ NoAdjacentShoppingCenter(grid, Head(queue))
    /\ Cardinality(CommercialCluster(grid, Head(queue))) = n

\* the placement that has just finished completed a 3-cell cluster with a cell on the edge
ClusterCompleted ==
    /\ PlacementReturned
    /\ getCell(grid, last.pos) # Null
    /\ tileToCategory[getCell(grid, last.pos)] = "C"
    /\ Cardinality(CommercialCluster(grid, last.pos)) = 3
    /\ \E p \in CommercialCluster(grid, last.pos) : OnRegionEdge(p)

BankSatisfied(g, pos) == "bank" \in Qualifying(g, pos)

\* C10 (as claimed): a shop with no adjacent shopping_center never becomes
\* shopping_center while its cluster has exactly 2 cells; when its cluster has
\* 3 cells with one on the region edge its examination makes it
\* shopping_center, and no shop is left in the cluster when the placement
\* that completed it finishes.
C10_ClusterRule_AsClaimed ==
    [][/\ ShopExamined(2) => getCell(grid', Head(queue)) # "shopping_center"
       /\ (ShopExamined(3) /\ \E p \in CommercialCluster(grid, Head(queue)) : OnRegionEdge(p))
              => getCell(grid', Head(queue)) = "shopping_center"
       /\ ClusterCompleted' =>
              \A p \in CommercialCluster(grid', last'.pos) : getCell(grid', p) # "shop"]_vars

\* C10 (amended): as above, except that the examined shop of a 3-cell cluster
\* becomes bank instead of shopping_center when its Bank candidate (at least
\* 4 tier2_residential in the adjacent blocks) is satisfied.
C10_ClusterRule ==
    [][/\ ShopExamined(2) => getCell(grid', Head(queue)) # "shopping_center"
       /\ (ShopExamined(3) /\ \E p \in CommercialCluster(grid, Head(queue)) : OnRegionEdge(p))
              => getCell(grid', Head(queue)) =
                     IF BankSatisfied(grid, Head(queue)) THEN "bank" ELSE "shopping_center"
       /\ ClusterCompleted' =>
              \A p \in CommercialCluster(grid', last'.pos) : getCell(grid', p) # "shop"]_vars

\* C10 witness: the placement that completed a 3-cell cluster on the edge has
\* finished and the three cells are shopping centers
C10_Witness ==
    /\ ClusterCompleted
    /\ \A p \in CommercialCluster(grid, last.pos) : getCell(grid, p) = "shopping_center"

\* the occupied cells of the region of pos
RegionTiles(g, pos) ==
    {p \in {Pos(pos.superblockRow, pos.superblockCol, r, c) : r \in 0..2, c \in 0..2} :
        getCell(g, p) # Null}

\* the occupied cells of the region of pos whose tile is of the category
RegionOfCategory(g, pos, category) ==
    {p \in RegionTiles(g, pos) : tileToCategory[getCell(g, p)] = category}

\* the region of pos holds exactly n tiles, all of them residential
OnlyResidential(g, pos, n) ==
    /\ Cardinality(RegionTiles(g, pos)) = n
    /\ RegionOfCategory(g, pos, "R") = RegionTiles(g, pos)

\* C11: while a region holds only residential tiles, at most 3 of them, the
\* rebuild phase of a placement in it changes nothing; when the placement of
\* the 4th residential tile of an otherwise empty region finishes, all 4
\* cells are slums, and on a board with no other tile every change of that
\* phase costs 6 and the score ends at exactly -24.
C11_FourHousesBecomeSlums ==
    [][pc = "rebuild" =>
        /\ (\E n \in 1..3 : OnlyResidential(grid, last.pos, n)) =>
               /\ grid' = grid /\ score' = score
               /\ \A p \in RegionTiles(grid, last.pos) : getCell(grid, p) = "house"
        /\ OnlyResidential(grid, last.pos, 4) =>
               /\ pc' = "idle" =>
                      \A p \in RegionTiles(grid', last.pos) : getCell(grid', p) = "slums"
               /\ turn = 4 =>
                      /\ grid' # grid => score' = score - 6
                      /\ pc' = "idle" => score' = 0 - 24]_vars

\* C11 witness: the 4th residential placement of a region has finished on a
\* board with no other tile: four slums, one of them at the centre cell, score -24
C11_Witness ==
    /\ PlacementReturned
    /\ OnlyResidential(grid, last.pos, 4)
    /\ turn = 4
    /\ \A p \in RegionTiles(grid, last.pos) : getCell(grid, p) = "slums"
    /\ \E p \in RegionTiles(grid, last.pos) : p.cellRow = 1 /\ p.cellCol = 1
    /\ score = 0 - 24

\* the tiles of the category in the regions orthogonally adjacent to the region of pos
AdjacentRegionsOfCategory(g, pos, category) ==
    {p \in Positions :
        /\ \/ (p.superblockRow = pos.superblockRow
                  /\ (p.superblockCol - pos.superblockCol) \in {-1, 1})
           \/ (p.superblockCol = pos.superblockCol
                  /\ (p.superblockRow - pos.superblockRow) \in {-1, 1})
        /\ getCell(g, p) # Null
        /\ tileToCategory[getCell(g, p)] = category}

\* the placement that has just finished put a leisure or education tile next
\* to the only other tiles of its region, 4 residential ones
RoundTripDone ==
    /\ PlacementReturned
    /\ getCell(grid, last.pos) # Null
    /\ tileToCategory[getCell(grid, last.pos)] \in {"L", "E"}
    /\ Cardinality(RegionTiles(grid, last.pos)) = 5
    /\ Cardinality(RegionOfCategory(grid, last.pos, "R")) = 4

\* an accepted placement of a leisure or education tile in a region that
\* holds 4 residential tiles and nothing else finds those 4 tiles slums
RoundTripStartsFromSlums ==
    (/\ PlaceTileCallStep /\ last'.ret = "pending"
     /\ Head(deck) \in {"L", "E"}
     /\ OnlyResidential(grid, last'.pos, 4)) =>
        \A p \in RegionTiles(grid, last'.pos) : getCell(grid, p) = "slums"

\* C12 (as claimed): when a leisure or education tile has been placed in a
\* region whose only tiles were 4 slums, all 4 former slums cells are house
\* and the placed tile has the default kind of its category.
C12_SlumsRoundTrip_AsClaimed ==
    [][/\ RoundTripStartsFromSlums
       /\ RoundTripDone' =>
            /\ \A p \in RegionOfCategory(grid', last'.pos, "R") : getCell(grid', p) = "house"
            /\ getCell(grid', last'.pos) \in {"yard", "school"}]_vars

\* C12 (amended): as above, except that a former slums cell at the centre of
\* the region that is orthogonally adjacent to the placed leisure tile ends
\* as villa, and that a placed education tile ends as highschool when the
\* orthogonally adjacent regions hold at least 20 residential tiles and at
\* least 1 education tile.
C12_SlumsRoundTrip ==
    [][/\ RoundTripStartsFromSlums
       /\ RoundTripDone' =>
            /\ \A p \in RegionOfCategory(grid', last'.pos, "R") :
                   getCell(grid', p) =
                       IF /\ p.cellRow = 1 /\ p.cellCol = 1
                          /\ last'.pos \in AdjacentOfCategory(grid', p, "L")
                       THEN "villa" ELSE "house"
            /\ getCell(grid', last'.pos) =
                   IF tileToCategory[getCell(grid', last'.pos)] = "L" THEN "yard"
                   ELSE IF /\ Cardinality(AdjacentRegionsOfCategory(grid', last'.pos, "R")) >= 20
                           /\ AdjacentRegionsOfCategory(grid', last'.pos, "E") # {}
                        THEN "highschool" ELSE "school"]_vars

\* C12 witness: a school has been placed next to 4 slums that fill the centre
\* and three other cells of the region, and the 4 cells are house again
C12_Witness ==
    /\ RoundTripDone
    /\ getCell(grid, last.pos) = "school"
    /\ getCell(grid, Pos(last.pos.superblockRow, last.pos.superblockCol, 1, 1)) = "house"
    /\ \A p \in RegionOfCategory(grid, last.pos, "R") : getCell(grid, p) = "house"
    /\ score = 0 - 24

\* the occupied cells whose kind a step of the session changes; init empties
\* the whole board and gives no cell a new kind
SessionKindChanges == IF InitCallStep THEN {} ELSE KindChanges

\* C13: a cell becomes hotel only by the examination of a house whose region
\* holds, at that moment, at least 3 commercial tiles and strictly fewer
\* than 3 residential tiles (the house counted); a house examined in a region
\* with exactly 3 residential tiles has an unsatisfied Hotel candidate and
\* does not become hotel.
C13_HotelNeedsFewerThanThree ==
    [][/\ \A p \in SessionKindChanges :
              getCell(grid', p) = "hotel" =>
                  /\ ExamineStep /\ p = Head(queue)
                  /\ getCell(grid, p) = "house"
                  /\ Cardinality(RegionOfCategory(grid, p, "C")) >= 3
                  /\ Cardinality(RegionOfCategory(grid, p, "R")) < 3
       /\ (/\ ExamineStep
           /\ getCell(grid, Head(queue)) = "house"
           /\ Cardinality(RegionOfCategory(grid, Head(queue), "R")) = 3) =>
              /\ "hotel" \notin Qualifying(grid, Head(queue))
              /\ getCell(grid', Head(queue)) # "hotel"]_vars

\* C13 witness: the third house of a region with 3 shops has been placed and
\* examined: the first two houses are hotels, the third is still a house
C13_Witness ==
    /\ PlacementReturned
    /\ getCell(grid, last.pos) = "house"
    /\ Cardinality(RegionOfCategory(grid, last.pos, "C")) >= 3
    /\ Cardinality(RegionOfCategory(grid, last.pos, "R")) = 3
    /\ Cardinality({p \in RegionTiles(grid, last.pos) : getCell(grid, p) = "hotel"}) = 2

\* a getUpgradeInfo call returns
GetUpgradeInfoStep == pc = "idle" /\ last'.op = "getUpgradeInfo" /\ info' # info

\* the two returned values are the same candidate map: the same target kinds,
\* verdicts, and condition lists with the same truth values and descriptions
SameCandidateMap(a, b) ==
    /\ a.isNull = b.isNull
    /\ ~a.isNull =>
        /\ DOMAIN a.upgrades = DOMAIN b.upgrades
        /\ \A k \in DOMAIN a.upgrades :
               /\ a.upgrades[k].verdict = b.upgrades[k].verdict
               /\ a.upgrades[k].verdict = "can_upgrade" =>
                  /\ Len(a.upgrades[k].conditions) = Len(b.upgrades[k].conditions)
                  /\ \A i \in 1..Len(a.upgrades[k].conditions) :
                         /\ a.upgrades[k].conditions[i].met = b.upgrades[k].conditions[i].met
                         /\ a.upgrades[k].conditions[i].desc = b.upgrades[k].conditions[i].desc

C15_EvaluationWritesNothing ==
    [][/\ GetUpgradeInfoStep => UNCHANGED <<grid, deck, score, turn, queue, visited, upgradeCount>>
       /\ (PlaceTileCallStep /\ last'.ret = "pending") =>
              \E k \in TileTypes : OnlyChange(last'.pos, k)
       /\ (pc = "rebuild" /\ pc' = "rebuild") =>
              /\ UNCHANGED <<deck, turn>>
              /\ grid' = grid => score' = score
              /\ grid' # grid =>
                     /\ ExamineStep
                     /\ getCell(grid, Head(queue)) # getCell(grid', Head(queue))
                     /\ OnlyChange(Head(queue), getCell(grid', Head(queue)))
                     /\ getCell(grid', Head(queue)) \in Qualifying(grid, Head(queue))
       /\ (pc = "rebuild" /\ pc' = "idle") => UNCHANGED <<grid, score, turn>>]_vars

\* C15 witness: getUpgradeInfo has evaluated the rules of a shop of a
\* two-cell cluster (cluster walk) and the board still holds its tiles
C15_Witness ==
    /\ last.op = "getUpgradeInfo"
    /\ info.n >= 1
    /\ getCell(grid, info.pos) = "shop"
    /\ Cardinality(CommercialCluster(grid, info.pos)) = 2
    /\ ~info.ret.isNull
    /\ "shopping_center" \in DOMAIN info.ret.upgrades
    /\ turn = cellsFilled(grid) /\ turn >= 2 /\ Len(deck) = 5

\* the board createEmptyGrid builds has 81 cells and every one of them is empty
EmptyGridHas81EmptyCells ==
    /\ \A pos \in Positions : getCell(EmptyGrid, pos) = Null
    /\ Cardinality({pos \in Positions : getCell(EmptyGrid, pos) = Null}) = 81

\* C16: init, called in any state, sets all 81 cells to empty, score to 0 and
\* turn to 0 in one step, and leaves a deck of exactly 5 categories.
C16_InitResetsEverything ==
    [][InitCallStep =>
        /\ grid' = EmptyGrid
        /\ EmptyGridHas81EmptyCells
        /\ score' = 0
        /\ turn' = 0
        /\ Len(deck') = 5
        /\ \A i \in 1..Len(deck') : deck'[i] \in {"R", "L", "C", "E"}]_vars

\* C16 witness: init has returned in a session whose last rebuild phase had
\* applied changes (the counter of that phase is still at its final value)
C16_Witness ==
    /\ pc = "idle" /\ last.op = "init"
    /\ upgradeCount >= 4
    /\ grid = EmptyGrid /\ score = 0 /\ turn = 0 /\ Len(deck) = 5

\* one cell of each of the 9 regions
RegionAnchors == {Pos(sbr, sbc, 0, 0) : sbr \in 0..2, sbc \in 0..2}

\* the region of pos holds at least 3 residential, 1 leisure, 1 commercial and 1 education tiles
Tier2Region(g, pos) ==
    /\ Cardinality(RegionOfCategory(g, pos, "R")) >= 3
    /\ RegionOfCategory(g, pos, "L") # {}
    /\ RegionOfCategory(g, pos, "C") # {}
    /\ RegionOfCategory(g, pos, "E") # {}

\* C17: between placements, a region that holds at least 3 residential, 1
\* leisure, 1 commercial and 1 education tiles contains no house and no slums
\* tile.
C17_Tier2RegionHasNoHouse ==
    pc = "idle" =>
        \A a \in RegionAnchors :
            Tier2Region(grid, a) =>
                \A p \in RegionTiles(grid, a) : getCell(grid, p) \notin {"house", "slums"}

\* C17 witness: a placement has finished in a region that meets the four
\* counts and holds 4 tier2_residential tiles
C17_Witness ==
    /\ PlacementReturned
    /\ Tier2Region(grid, last.pos)
    /\ Cardinality({p \in RegionTiles(grid, last.pos) :
                       getCell(grid, p) = "tier2_residential"}) = 4

\* C18: when a placement finishes, every tier2_residential or highrise tile
\* lies in a region that holds at least 3 residential, 1 leisure, 1
\* commercial and 1 education tiles, and so does every tile at the moment it
\* becomes one of these kinds; a cell becomes tier2_residential only from
\* house or slums and only while its region holds all four.
C18_Tier2OnlyInTier2Region ==
    [][/\ (pc = "rebuild" /\ pc' = "idle") =>
              \A a \in RegionAnchors :
                  Tier2Region(grid', a) \/
                      \A p \in RegionTiles(grid', a) :
                          getCell(grid', p) \notin {"tier2_residential", "highrise"}
       /\ \A p \in SessionKindChanges :
              /\ getCell(grid', p) \in {"tier2_residential", "highrise"} =>
                     Tier2Region(grid', p)
              /\ getCell(grid', p) = "tier2_residential" =>
                     /\ getCell(grid, p) \in {"house", "slums"}
                     /\ Tier2Region(grid, p)]_vars

\* C18 witness: a placement has finished with a tier2_residential tile on the
\* board and with a region whose 3 or more residential tiles are all house
\* because the region has leisure and education but no commercial tile
C18_Witness ==
    /\ PlacementReturned
    /\ \E p \in Positions : getCell(grid, p) = "tier2_residential"
    /\ \E a \in RegionAnchors :
           /\ Cardinality(RegionOfCategory(grid, a, "R")) >= 3
           /\ RegionOfCategory(grid, a, "L") # {}
           /\ RegionOfCategory(grid, a, "E") # {}
           /\ RegionOfCategory(grid, a, "C") = {}
           /\ \A p \in RegionOfCategory(grid, a, "R") : getCell(grid, p) = "house"

\* the tile at p may be a villa: p is the centre cell of its region and has
\* an orthogonally adjacent leisure tile
VillaPlace(g, p) ==
    /\ p.cellRow = 1 /\ p.cellCol = 1
    /\ AdjacentOfCategory(g, p, "L") # {}

\* C19: when a placement finishes, and at the moment a tile becomes villa,
\* every villa is at the centre cell of its region and has an orthogonally
\* adjacent leisure tile; a house examined on an edge cell does not become
\* villa, even with a leisure tile adjacent.
C19_VillaOnlyAtCentre ==
    [][/\ (pc = "rebuild" /\ pc' = "idle") =>
              \A p \in Positions : getCell(grid', p) = "villa" => VillaPlace(grid', p)
       /\ \A p \in SessionKindChanges :
              getCell(grid', p) = "villa" =>
                  /\ getCell(grid, p) = "house"
                  /\ VillaPlace(grid, p) /\ VillaPlace(grid', p)
       /\ (/\ ExamineStep
           /\ getCell(grid, Head(queue)) = "house"
           /\ OnRegionEdge(Head(queue))) =>
              /\ getCell(grid', Head(queue)) # "villa"
              /\ "villa" \notin Qualifying(grid, Head(queue))]_vars

\* C19 witness: a placement has finished with a villa on the board and with
\* a house on an edge cell next to a leisure tile
C19_Witness ==
    /\ PlacementReturned
    /\ \E p \in Positions : getCell(grid, p) = "villa"
    /\ \E p \in Positions :
           /\ getCell(grid, p) = "house"
           /\ OnRegionEdge(p)
           /\ AdjacentOfCategory(grid, p, "L") # {}

\* C20: between placements, a region that holds at least 4 education tiles
\* has every one of its education tiles of kind university.
C20_FourEducationAllUniversity ==
    pc = "idle" =>
        \A a \in RegionAnchors :
            LET education == RegionOfCategory(grid, a, "E")
            IN  Cardinality(education) >= 4 =>
                    \A p \in education : getCell(grid, p) = "university"

\* C20 witness: a placement of an education tile has finished in a region with
\* at least 4 education tiles, one of them a university that is not
\* orthogonally adjacent to the placed tile
C20_Witness ==
    /\ PlacementReturned
    /\ \E a \in RegionAnchors :
           LET education == RegionOfCategory(grid, a, "E")
           IN  /\ Cardinality(education) >= 4
               /\ last.pos \in education
               /\ \E p \in education \ {last.pos} :
                      /\ p \notin AdjacentOfCategory(grid, last.pos, "E")
                      /\ getCell(grid, p) = "university"

\* C21: between placements, a region that holds at least 7 leisure tiles
\* has every one of its leisure tiles of kind park, except tiles that are cinema.
C21_SevenLeisureAllPark ==
    pc = "idle" =>
        \A a \in RegionAnchors :
            LET leisure == RegionOfCategory(grid, a, "L")
            IN  Cardinality(leisure) >= 7 =>
                    \A p \in leisure : getCell(grid, p) \in {"park", "cinema"}

\* C21 witness: the placement of the seventh leisure tile of a region has
\* finished after 7 or more kind changes and every leisure tile of the region
\* is a park
C21_Witness ==
    /\ PlacementReturned
    /\ upgradeCount >= 7
    /\ LET leisure == RegionOfCategory(grid, last.pos, "L")
       IN  /\ Cardinality(leisure) = 7
           /\ last.pos \in leisure
           /\ \A p \in leisure : getCell(grid, p) = "park"

\* the axis-aligned 2x2 windows of the region of pos
Windows(pos) ==
    {{Pos(pos.superblockRow, pos.superblockCol, r + i, c + j) : i \in 0..1, j \in 0..1} :
        r \in 0..1, c \in 0..1}

\* the window w of the board g is four leisure tiles, none of them
\* orthogonally adjacent to a shopping_center
LeisureWindow(g, w) ==
    \A p \in w :
        /\ IsCategory(getCell(g, p), "L")
        /\ \A q \in Range(AdjacentPositions(g, p)) : getCell(g, q) # "shopping_center"

\* C22: when a placement has completed a 2x2 window of four leisure tiles
\* inside one region, the region holds fewer than 7 leisure tiles and none of
\* the four cells is orthogonally adjacent to a shopping_center, all four
\* cells of the window are plaza when the placement finishes.
C22_CompletedSquareIsPlaza ==
    PlacementReturned =>
        \A w \in Windows(last.pos) :
            (/\ last.pos \in w
             /\ LeisureWindow(grid, w)
             /\ Cardinality(RegionOfCategory(grid, last.pos, "L")) < 7) =>
                \A p \in w : getCell(grid, p) = "plaza"

\* C22 witness: a placement has completed a second 2x2 window in a region of
\* 6 leisure tiles, and the phase changed the kind of tiles of that window
C22_Witness ==
    /\ PlacementReturned
    /\ upgradeCount >= 2
    /\ Cardinality(RegionOfCategory(grid, last.pos, "L")) = 6
    /\ \E w \in Windows(last.pos) :
           /\ last.pos \in w
           /\ LeisureWindow(grid, w)
           /\ \A p \in w : getCell(grid, p) = "plaza"

\* the tile at p has an orthogonally adjacent shopping_center
BesideShoppingCenter(g, p) ==
    \E q \in Range(AdjacentPositions(g, p)) : getCell(g, q) = "shopping_center"

\* C23: between placements, no yard, sports, playground or plaza tile is
\* orthogonally adjacent to a shopping_center tile (such a tile has become
\* cinema or park), including when the shopping_center was created by the
\* same rebuild phase.
C23_NoPlainLeisureBesideCenter ==
    pc = "idle" =>
        \A p \in Positions :
            getCell(grid, p) \in {"yard", "sports", "playground", "plaza"} =>
                ~BesideShoppingCenter(grid, p)

\* C23 witness: a placed shop has completed a cluster and become
\* shopping_center, and a leisure tile placed before it, orthogonally adjacent
\* to a shopping_center, is a cinema when the placement finishes
C23_Witness ==
    /\ PlacementReturned
    /\ getCell(grid, last.pos) = "shopping_center"
    /\ upgradeCount >= 4
    /\ \E p \in RegionOfCategory(grid, last.pos, "L") :
           getCell(grid, p) = "cinema" /\ BesideShoppingCenter(grid, p)

\* C24: between placements, no tile of kind shop is orthogonally adjacent to
\* a shopping_center tile.
C24_NoShopBesideCenter ==
    pc = "idle" =>
        \A p \in Positions :
            getCell(grid, p) = "shop" => ~BesideShoppingCenter(grid, p)

\* C24 witness: a shop placed beside an existing shopping_center has become
\* shopping_center as the only kind change of its rebuild phase
C24_Witness ==
    /\ PlacementReturned
    /\ getCell(grid, last.pos) = "shopping_center"
    /\ BesideShoppingCenter(grid, last.pos)
    /\ upgradeCount = 1

\* the tier2_residential tiles of the regions orthogonally adjacent to the region of pos
AdjacentTier2(g, pos) ==
    {q \in AdjacentRegionsOfCategory(g, pos, "R") : getCell(g, q) = "tier2_residential"}

\* C25: between placements, no tile of kind shop has 4 or more
\* tier2_residential tiles in total in the regions orthogonally adjacent to
\* its region (such a shop has become bank), whether the shop was placed last
\* or the fourth tier2_residential appeared last.
C25_NoShopNearFourTier2 ==
    pc = "idle" =>
        \A p \in Positions :
            getCell(grid, p) = "shop" => Cardinality(AdjacentTier2(grid, p)) < 4

\* C25 witness: the placed house is the fourth tier2_residential of its
\* region, the only one the rebuild phase created, and a shop placed earlier
\* in an adjacent region is a bank when the placement finishes
C25_Witness ==
    /\ PlacementReturned
    /\ getCell(grid, last.pos) = "tier2_residential"
    /\ upgradeCount = 2
    /\ Cardinality({q \in RegionOfCategory(grid, last.pos, "R") :
                        getCell(grid, q) = "tier2_residential"}) = 4
    /\ \E p \in AdjacentRegionsOfCategory(grid, last.pos, "C") :
           /\ getCell(grid, p) = "bank"
           /\ Cardinality(AdjacentTier2(grid, p)) = 4

\* the residential tiles of the region of pos plus those of the regions
\* orthogonally adjacent to it
ResidentialTotal(g, pos) ==
    Cardinality(RegionOfCategory(g, pos, "R"))
        + Cardinality(AdjacentRegionsOfCategory(g, pos, "R"))

\* the residential tiles of the regions that are neither the region of pos
\* nor orthogonally adjacent to it
ResidentialElsewhere(g, pos) ==
    {p \in Positions :
        /\ IsCategory(getCell(g, p), "R")
        /\ p \notin RegionOfCategory(g, pos, "R")
        /\ p \notin AdjacentRegionsOfCategory(g, pos, "R")}

\* C26: a shop examined with at least one orthogonally adjacent commercial
\* tile and a residential total of at least 10 (own region plus orthogonally
\* adjacent regions, no other region) has a satisfied Restaurant candidate
\* and becomes restaurant (+20) provided neither the Bank nor the Shopping
\* Center candidate is satisfied; with a total of 9 or less, or with no
\* adjacent commercial tile, the candidate is unsatisfied and it does not.
C26_RestaurantRule ==
    [][(ExamineStep /\ getCell(grid, Head(queue)) = "shop") =>
          LET p == Head(queue)
              beside == AdjacentOfCategory(grid, p, "C") # {}
              total == ResidentialTotal(grid, p)
              kinds == Qualifying(grid, p)
          IN  /\ ("restaurant" \in kinds) <=> (beside /\ total >= 10)
              /\ (beside /\ total >= 10 /\ "bank" \notin kinds
                         /\ "shopping_center" \notin kinds) =>
                    /\ getCell(grid', p) = "restaurant"
                    /\ score' = score + 20
              /\ (total <= 9 \/ ~beside) => getCell(grid', p) # "restaurant"]_vars

\* C26 witness: the shop placed on Focus beside a commercial tile has become
\* restaurant with a residential total of exactly 10 while other regions hold
\* residential tiles too
C26_Witness ==
    /\ PlacementReturned /\ last.pos = Focus
    /\ getCell(grid, Focus) = "restaurant"
    /\ AdjacentOfCategory(grid, Focus, "C") # {}
    /\ ResidentialTotal(grid, Focus) = 10
    /\ ResidentialElsewhere(grid, Focus) # {}

\* the regions orthogonally adjacent to the region of pos hold at least 20
\* residential tiles and at least 1 education tile, of any kind
HighschoolPlace(g, pos) ==
    /\ Cardinality(AdjacentRegionsOfCategory(g, pos, "R")) >= 20
    /\ AdjacentRegionsOfCategory(g, pos, "E") # {}

\* C27: the High School candidate of a school is satisfied exactly when the
\* regions orthogonally adjacent to its region together hold at least 20
\* residential tiles (each counting 1, whatever its kind) and at least 1
\* education tile of any kind; tiles of the school's own region count toward
\* neither condition; a school examined where both hold becomes highschool
\* (+18) unless University is satisfied.  Checked on every examination of a
\* school by the rebuild phase and on every getUpgradeInfo of a school.
C27_HighschoolRule ==
    [][/\ (ExamineStep /\ getCell(grid, Head(queue)) = "school") =>
              LET p == Head(queue)
                  kinds == Qualifying(grid, p)
              IN  /\ ("highschool" \in kinds) <=> HighschoolPlace(grid, p)
                  /\ (HighschoolPlace(grid, p) /\ "university" \notin kinds) =>
                        /\ getCell(grid', p) = "highschool"
                        /\ score' = score + 18
                  /\ ~HighschoolPlace(grid, p) => getCell(grid', p) # "highschool"
       /\ (GetUpgradeInfoStep /\ getCell(grid, info'.pos) = "school") =>
              LET candidate == info'.ret.upgrades["highschool"]
              IN  /\ candidate.verdict = "can_upgrade"
                  /\ AllMet(candidate) <=> HighschoolPlace(grid, info'.pos)]_vars

\* C27 witness: the school placed on Focus has become highschool for 18
\* points; the adjacent regions hold exactly 20 residential tiles, some of
\* them tier2_residential, and their only education tile is a university
C27_Witness ==
    /\ PlacementReturned /\ last.pos = Focus
    /\ getCell(grid, Focus) = "highschool"
    /\ score = 18
    /\ Cardinality(AdjacentRegionsOfCategory(grid, Focus, "R")) = 20
    /\ \E q \in AdjacentRegionsOfCategory(grid, Focus, "R") :
           getCell(grid, q) = "tier2_residential"
    /\ \A q \in AdjacentRegionsOfCategory(grid, Focus, "E") :
           getCell(grid, q) = "university"

\* the weighted residential value of the regions orthogonally adjacent to the
\* region of pos: 4 per tier2_residential or highrise tile, 1 per tile of any
\* other residential kind, 0 per other tile
WeightedValue(g, pos) ==
    LET residential == AdjacentRegionsOfCategory(g, pos, "R")
        heavy == {q \in residential : getCell(g, q) \in {"tier2_residential", "highrise"}}
    IN  4 * Cardinality(heavy) + Cardinality(residential \ heavy)

HighrisePlace(g, pos) ==
    /\ \E q \in AdjacentRegionsOfCategory(g, pos, "C") : getCell(g, q) = "shopping_center"
    /\ WeightedValue(g, pos) >= 20
    /\ RegionOfCategory(g, pos, "E") # {}
    /\ Cardinality(RegionOfCategory(g, pos, "L")) >= 3

\* C28: the Highrise candidate applies only to a tier2_residential tile and
\* is satisfied exactly when the orthogonally adjacent regions hold at least
\* 1 shopping_center, their weighted residential value is at least 20, and
\* the tile's own region holds at least 1 education and at least 3 leisure
\* tiles.  Checked on every examination of a tile by the rebuild phase and
\* on every getUpgradeInfo of a residential tile.
C28_HighriseRule ==
    [][/\ ExamineStep =>
              LET p == Head(queue)
              IN  ("highrise" \in Qualifying(grid, p)) <=>
                      (getCell(grid, p) = "tier2_residential" /\ HighrisePlace(grid, p))
       /\ (GetUpgradeInfoStep /\ IsCategory(getCell(grid, info'.pos), "R")) =>
              LET candidate == info'.ret.upgrades["highrise"]
              IN  IF getCell(grid, info'.pos) = "tier2_residential"
                  THEN /\ candidate.verdict = "can_upgrade"
                       /\ AllMet(candidate) <=> HighrisePlace(grid, info'.pos)
                  ELSE candidate.verdict = "cannot_upgrade"]_vars

\* C28 witness: getUpgradeInfo has returned a satisfied Highrise candidate for
\* the tier2_residential tile on Focus; the weighted value of the adjacent
\* regions is exactly 20 with fewer than 20 residential tiles in them, and a
\* region that is not adjacent holds a shopping_center
C28_Witness ==
    /\ pc = "idle" /\ last.op = "getUpgradeInfo" /\ info.pos = Focus
    /\ getCell(grid, Focus) = "tier2_residential"
    /\ AllMet(info.ret.upgrades["highrise"])
    /\ WeightedValue(grid, Focus) = 20
    /\ Cardinality(AdjacentRegionsOfCategory(grid, Focus, "R")) < 20
    /\ getCell(grid, Pos(2, 1, 0, 0)) = "shopping_center"

\* the rebuild phase in progress belongs to the placement of a leisure or
\* education tile in the region of pos
LeisureOrEducationPlacedIn(pos) ==
    /\ pc = "rebuild" /\ last.op = "placeTile"
    /\ last.pos.superblockRow = pos.superblockRow
    /\ last.pos.superblockCol = pos.superblockCol
    /\ \/ IsCategory(getCell(grid, last.pos), "L")
       \/ IsCategory(getCell(grid, last.pos), "E")

\* C29 (as claimed, and as the test at l.970-988 and the README word it): when
\* a leisure or education tile is placed in a region containing slums and the
\* Tier-2 conditions then hold for that region, each slums tile first reverts
\* to house: the kind change of a slums tile in that phase is to house. The
\* code does otherwise: findAppliedUpgrade walks upgradePriority, where
\* tier2_residential comes before house.
C29_SlumsViaHouse_AsClaimed ==
    [][\A p \in SessionKindChanges :
          (/\ getCell(grid, p) = "slums"
           /\ LeisureOrEducationPlacedIn(p)
           /\ Tier2Region(grid, p)) => getCell(grid', p) = "house"]_vars

\* C29, what the code does on the board of that test: a leisure or education
\* tile was placed on Focus in a region of slums, a shop and a school or yard;
\* when the placement finishes every residential tile of the region is
\* tier2_residential and the phase made exactly one kind change per
\* residential tile, 12 points each, so no tile passed through house
C29_Witness ==
    /\ PlacementReturned /\ last.pos = Focus /\ plan = PrefillPlan
    /\ tileToCategory[getCell(grid, Focus)] \in {"L", "E"}
    /\ Tier2Region(grid, Focus)
    /\ \A q \in RegionOfCategory(grid, Focus, "R") : getCell(grid, q) = "tier2_residential"
    /\ upgradeCount = Cardinality(RegionOfCategory(grid, Focus, "R"))
    /\ score = 12 * upgradeCount

\* the cells of the region of pos and of the regions orthogonally adjacent to it
NearCells(pos) ==
    {o \in Positions :
        \/ (o.superblockRow = pos.superblockRow /\ o.superblockCol = pos.superblockCol)
        \/ (o.superblockRow = pos.superblockRow
               /\ (o.superblockCol - pos.superblockCol) \in {-1, 1})
        \/ (o.superblockCol = pos.superblockCol
               /\ (o.superblockRow - pos.superblockRow) \in {-1, 1})}

\* C30: within a rebuild phase, every applied kind change empties the visited
\* set and puts the changed cell, every cell of its region and every cell of
\* each orthogonally adjacent region in the queue; afterwards a cell leaves
\* the queue only by being examined or by being in the visited set, the
\* visited set gains only a cell that was just examined against the current
\* board and found stable (or empty), and the phase ends only when the queue
\* is empty.  So each of those cells is examined against a board at least as
\* recent as the change before the phase ends, and no cell stays marked
\* stable across a change.
C30_ChangeRequeuesAndClearsVisited ==
    [][pc = "rebuild" =>
          /\ grid' # grid =>
                 /\ KindChanges = {Head(queue)}
                 /\ visited' = {}
                 /\ NearCells(Head(queue)) \subseteq Range(queue')
          /\ (grid' = grid /\ pc' = "rebuild") =>
                 /\ Range(queue) \ {Head(queue)} \subseteq Range(queue')
                 /\ visited \subseteq visited'
                 /\ visited' \ visited \subseteq {Head(queue)}
                 /\ Head(queue) \notin Range(queue') => Head(queue) \in visited'
                 /\ visited' # visited =>
                        \/ getCell(grid, Head(queue)) = Null
                        \/ Qualifying(grid, Head(queue)) = {}
          /\ pc' = "idle" =>
                 /\ queue = <<>>
                 /\ \A o \in visited : getCell(grid, o) = Null \/ Qualifying(grid, o) = {}]_vars

\* C30 witness: a kind change has just been applied after other cells had been
\* examined: the visited set is empty again and the queue holds occupied
\* cells of a region orthogonally adjacent to the region of the placement
C30_Witness ==
    /\ pc = "rebuild" /\ upgradeCount >= 1 /\ visited = {}
    /\ Len(queue) > 9
    /\ \E o \in Range(queue) :
           /\ o \in NearCells(last.pos)
           /\ (o.superblockRow # last.pos.superblockRow
                  \/ o.superblockCol # last.pos.superblockCol)
           /\ getCell(grid, o) # Null

\* the 2x2 squares of the whole board that contain pos and reach into another
\* block than the block of pos
BorderSquares(pos) ==
    LET row == pos.superblockRow * 3 + pos.cellRow
        col == pos.superblockCol * 3 + pos.cellCol
        square(r, c) ==
            {Pos((r + i) \div 3, (c + j) \div 3, (r + i) % 3, (c + j) % 3) :
                i \in 0..1, j \in 0..1}
    IN  {w \in {square(r, c) : r \in {x \in {row - 1, row} : x >= 0 /\ x <= 7},
                              c \in {x \in {col - 1, col} : x >= 0 /\ x <= 7}} :
            \E p \in w : p.superblockRow # pos.superblockRow
                            \/ p.superblockCol # pos.superblockCol}

AllLeisure(g, w) == \A p \in w : IsCategory(getCell(g, p), "L")

\* a yard, sports or playground tile is examined by the rebuild phase
PlazaCandidateExamined ==
    /\ ExamineStep
    /\ getCell(grid, Head(queue)) \in {"yard", "sports", "playground"}

\* C31: for a yard, sports or playground tile the Plaza condition is true
\* exactly when one of the 2x2 windows of the cell's own region that contain
\* the cell holds four leisure tiles; windows that reach into a neighbouring
\* region are not counted.
C31_PlazaConditionIsOwnRegionWindow ==
    [][PlazaCandidateExamined =>
          (Satisfied(grid, Head(queue), "plaza")
              <=> \E w \in Windows(Head(queue)) :
                      Head(queue) \in w /\ AllLeisure(grid, w))]_vars

\* C31 witness: an examined yard lies in a square of four leisure tiles that
\* spans two regions, its Plaza condition is false, and two cells of that
\* square are plaza tiles of the neighbouring region
C31_Witness ==
    /\ PlazaCandidateExamined
    /\ getCell(grid, Head(queue)) = "yard"
    /\ \E w \in BorderSquares(Head(queue)) :
           /\ AllLeisure(grid, w)
           /\ Cardinality({p \in w : getCell(grid, p) = "plaza"}) = 2
    /\ ~Satisfied(grid, Head(queue), "plaza")

\* the 4-connected component of commercial tiles that contains start, grown
\* inside the region of start; empty when start holds no commercial tile
Component(g, start) ==
    IF IsCategory(getCell(g, start), "C") THEN CommercialCluster(g, start) ELSE {}

\* the commercial tiles orthogonally adjacent to a cell of the set across a
\* region border
CommercialAcrossBorder(g, cells) ==
    {q \in Positions :
        /\ IsCategory(getCell(g, q), "C")
        /\ \E p \in cells :
               /\ <<p.superblockRow, p.superblockCol>> # <<q.superblockRow, q.superblockCol>>
               /\ LET dr == (p.superblockRow * 3 + p.cellRow) - (q.superblockRow * 3 + q.cellRow)
                      dc == (p.superblockCol * 3 + p.cellCol) - (q.superblockCol * 3 + q.cellCol)
                  IN  (dr = 0 /\ dc \in {-1, 1}) \/ (dc = 0 /\ dr \in {-1, 1})}

\* C32: findConnectedCommercialCluster(start) returns as size the number of
\* cells of the 4-connected component of commercial tiles (of any commercial
\* kind) that contains start, a component inside the region of start (at most
\* 9 cells, none when start holds no commercial tile), and as touchesRoad
\* whether a cell of that component is an edge cell.  It is evaluated for the
\* cell at the head of the rebuild queue.
C32_ClusterIsRegionComponent ==
    (pc = "rebuild" /\ queue # <<>>) =>
        LET start == Head(queue)
            result == findConnectedCommercialCluster(grid, start)
            component == Component(grid, start)
        IN  /\ result.size = Cardinality(component)
            /\ result.size <= 9
            /\ (result.size = 0) <=> ~IsCategory(getCell(grid, start), "C")
            /\ \A p \in component :
                   /\ p.superblockRow = start.superblockRow
                   /\ p.superblockCol = start.superblockCol
            /\ result.touchesRoad <=> \E p \in component : OnRegionEdge(p)

\* C32 witness: the head of the queue is a shop whose component has two
\* cells, and a shopping_center of the neighbouring region touches that
\* component across the border
C32_Witness ==
    /\ pc = "rebuild" /\ queue # <<>>
    /\ getCell(grid, Head(queue)) = "shop"
    /\ findConnectedCommercialCluster(grid, Head(queue)).size = 2
    /\ \E q \in CommercialAcrossBorder(grid, Component(grid, Head(queue))) :
           getCell(grid, q) = "shopping_center"

\* the region <<row, col>> is equal or orthogonally adjacent to the region b
NearRegion(b, row, col) ==
    \/ (b[1] = row /\ b[2] = col)
    \/ (b[1] = row /\ (b[2] - col) \in {-1, 1})
    \/ (b[2] = col /\ (b[1] - row) \in {-1, 1})

\* the cells the finished rebuild phase answers for: the region of the placed
\* cell, and every region equal or adjacent to a region in which the phase
\* applied a kind change
Answered(pos) ==
    \/ (pos.superblockRow = last.pos.superblockRow /\ pos.superblockCol = last.pos.superblockCol)
    \/ \E b \in changedBlocks : NearRegion(b, pos.superblockRow, pos.superblockCol)

\* C33: after every placeTile that returned true, no occupied cell of the
\* region of the placed cell, and no occupied cell of a region equal or
\* orthogonally adjacent to a region in which the rebuild phase applied a
\* kind change, has a satisfied candidate for a kind other than its own.  It
\* is stated of the step on which placeTile returns, which leaves the placed
\* cell and the changes of the phase as they are.
C33_FixedPointWhereExamined ==
    [][(pc = "rebuild" /\ pc' = "idle" /\ last'.ret = "true") =>
          \A pos \in Occupied(grid') : Answered(pos) => Qualifying(grid', pos) = {}]_vars

\* C33 witness: a placement has returned whose phase applied a change in a
\* region other than the region of the placed cell, and an occupied cell lies
\* in a region that is neither the placed one nor one with a change, but is
\* adjacent to a region with a change
C33_Witness ==
    /\ PlacementReturned
    /\ \E b \in changedBlocks : b # <<last.pos.superblockRow, last.pos.superblockCol>>
    /\ \E pos \in Occupied(grid) :
           /\ Answered(pos)
           /\ <<pos.superblockRow, pos.superblockCol>> \notin
                  changedBlocks \cup {<<last.pos.superblockRow, last.pos.superblockCol>>}

\* C34: an occupied cell keeps its base category for the rest of the session
\* (until init): no step other than init empties it or gives it a kind of
\* another category, and a step of the rebuild phase leaves the number of
\* tiles of each category in every region unchanged.
C34_CategoryNeverChanges ==
    [][IF grid' = grid \/ InitCallStep THEN TRUE
       ELSE /\ \A pos \in Occupied(grid) :
                   /\ getCell(grid', pos) # Null
                   /\ tileToCategory[getCell(grid', pos)] = tileToCategory[getCell(grid, pos)]
            /\ pc = "rebuild" =>
                   \A a \in RegionAnchors : \A c \in Categories :
                       Cardinality(RegionOfCategory(grid', a, c))
                           = Cardinality(RegionOfCategory(grid, a, c))]_vars

\* C34 witness: the placement of a leisure or education tile beside four
\* slums has returned after at least four kind changes; the region holds no
\* slums, and still four residential tiles and the one placed tile
C34_Witness ==
    /\ PlacementReturned
    /\ plan = RegionPlan /\ turn = 5
    /\ upgradeCount >= 4
    /\ Cardinality(RegionOfCategory(grid, last.pos, "R")) = 4
    /\ Cardinality(RegionOfCategory(grid, last.pos, "L")
                     \cup RegionOfCategory(grid, last.pos, "E")) = 1
    /\ \A p \in RegionTiles(grid, last.pos) : getCell(grid, p) # "slums"

\* C35: between placements, no slums tile lies in a region that holds a
\* leisure or an education tile.
C35_NoSlumsWithLeisureOrEducation ==
    pc = "idle" =>
        \A a \in RegionAnchors :
            (RegionOfCategory(grid, a, "L") \cup RegionOfCategory(grid, a, "E")) # {} =>
                \A p \in RegionTiles(grid, a) : getCell(grid, p) # "slums"

\* C35 witness: a school has been placed in a region of four slums; the
\* placement has returned after at least four kind changes and the region
\* holds four residential tiles
C35_Witness ==
    /\ PlacementReturned
    /\ plan = RegionPlan
    /\ IsCategory(getCell(grid, last.pos), "E")
    /\ upgradeCount >= 4
    /\ changedBlocks = {<<last.pos.superblockRow, last.pos.superblockCol>>}
    /\ Cardinality(RegionOfCategory(grid, last.pos, "R")) = 4

\* the kinds the cell at pos has held in the running or last rebuild phase,
\* in order: the kind it had when the phase first changed it, then the kind
\* each change gave it
KindsHeld(pos) ==
    LET at == SelectSeq(changes, LAMBDA c : c.pos = pos)
    IN  IF at = <<>> THEN <<>>
        ELSE <<at[1].from>> \o [i \in 1..Len(at) |-> at[i].to]

\* C36: within one rebuild phase no cell changes kind more than twice and no
\* cell returns to a kind it held earlier in the phase; the phase applies at
\* most 2 x 81 = 162 kind changes.
C36_AtMostTwoChangesPerCell ==
    /\ Len(changes) <= 2 * TOTAL_CELLS
    /\ \A i \in 1..Len(changes) :
           LET held == KindsHeld(changes[i].pos)
           IN  /\ Len(held) <= 3
               /\ \A j, k \in 1..Len(held) : j # k => held[j] # held[k]

\* C36 witness: a placement has returned whose phase changed the kind of one
\* cell twice and the kind of another cell once
C36_Witness ==
    /\ PlacementReturned
    /\ \E i, j \in 1..Len(changes) :
           /\ Len(KindsHeld(changes[i].pos)) = 3
           /\ Len(KindsHeld(changes[j].pos)) = 2

\* the region of pos holds a leisure or an education tile
HasLeisureOrEducation(g, pos) ==
    (RegionOfCategory(g, pos, "L") \cup RegionOfCategory(g, pos, "E")) # {}

\* C37: over a session (since init), a cell whose tile has changed from slums
\* to another kind is never slums again, and its region holds a leisure or an
\* education tile from then on; the kind a slums tile changes to is house or
\* tier2_residential.
C37_SlumsAtMostOnce ==
    /\ \A pos \in exSlums :
           /\ getCell(grid, pos) # "slums"
           /\ HasLeisureOrEducation(grid, pos)
    /\ \A i \in 1..Len(changes) :
           changes[i].from = "slums" => changes[i].to \in {"house", "tier2_residential"}

\* C37 witness: two more houses have been placed in a region whose four slums
\* were cured earlier in the session; the region holds six residential tiles
C37_Witness ==
    /\ PlacementReturned
    /\ IsCategory(getCell(grid, last.pos), "R")
    /\ last.pos \notin exSlums
    /\ Cardinality(exSlums \cap RegionTiles(grid, last.pos)) = 4
    /\ Cardinality(RegionOfCategory(grid, last.pos, "R")) = 6

\* the cells of the board that hold a tile of the kind
CellsOfKind(g, kind) == {pos \in Positions : getCell(g, pos) = kind}

\* on the board g every shopping_center tile belongs to a connected cluster of
\* at least 3 commercial tiles inside its region, and for every shop with an
\* orthogonally adjacent shopping_center the cluster has at least 3 cells, one
\* of them an edge cell
ShoppingCentersClustered(g) ==
    /\ \A pos \in CellsOfKind(g, "shopping_center") :
           Cardinality(CommercialCluster(g, pos)) >= 3
    /\ \A pos \in CellsOfKind(g, "shop") :
           ~NoAdjacentShoppingCenter(g, pos) =>
               /\ Cardinality(CommercialCluster(g, pos)) >= 3
               /\ \E p \in CommercialCluster(g, pos) : OnRegionEdge(p)

\* C38: in every reachable state every shopping_center tile belongs to a
\* connected cluster of at least 3 commercial tiles inside its region; hence
\* for every shop that has an orthogonally adjacent shopping_center the
\* cluster has at least 3 cells and one of them is an edge cell.  It holds of
\* the empty board and of every board a placeTile call or a step of the
\* rebuild phase writes.
C38_ShoppingCenterInClusterOfThree ==
    /\ ShoppingCentersClustered(grid)
    /\ [][(~InitCallStep /\ grid' # grid) => ShoppingCentersClustered(grid')]_vars

\* C38 witness: the rebuild phase is about to examine a shop that has an
\* orthogonally adjacent shopping_center
C38_Witness ==
    /\ ExamineStep
    /\ getCell(grid, Head(queue)) = "shop"
    /\ ~NoAdjacentShoppingCenter(grid, Head(queue))
    /\ Satisfied(grid, Head(queue), "shopping_center")

\* the centre cell of a region
CentreCell(pos) == pos.cellRow = 1 /\ pos.cellCol = 1

\* isNearRoad is false on the centre cell of each region and true elsewhere
OnlyCentreIsNotNearRoad == \A pos \in Positions : isNearRoad(pos) <=> ~CentreCell(pos)

\* on the board g, for every commercial start cell, touchesRoad is false only
\* for a cluster that is a lone centre cell, a cluster of 2 or more cells
\* contains an edge cell, and the cluster condition of the Shopping
\* Center rule (size at least 3 and touchesRoad) is true exactly when the size
\* is at least 3
ClustersTouchRoad(g) ==
    \A pos \in Positions :
        IsCategory(getCell(g, pos), "C") =>
            LET cluster == findConnectedCommercialCluster(g, pos)
                clusterValid == cluster.size >= 3 /\ cluster.touchesRoad
            IN  /\ cluster.touchesRoad <=> \E p \in CommercialCluster(g, pos) : ~CentreCell(p)
                /\ cluster.size >= 2 => cluster.touchesRoad
                /\ clusterValid <=> cluster.size >= 3

\* C39: the centre cell of a region is the only cell that is not an edge
\* cell; on every board, for every commercial start cell, a cluster of 2 or
\* more cells contains an edge cell, so the cluster condition of the Shopping
\* Center rule is true exactly when the size is at least 3.  It holds of the
\* empty board and of every board a placeTile call or a step of the rebuild
\* phase writes.
C39_ClusterOfTwoTouchesRoad ==
    /\ ClustersTouchRoad(grid)
    /\ [][(~InitCallStep /\ grid' # grid) =>
          (OnlyCentreIsNotNearRoad /\ ClustersTouchRoad(grid'))]_vars

\* C39 witness: the rebuild phase is about to examine a shop with no adjacent
\* shopping_center whose cluster has three cells, the centre cell of the
\* region among them, and its Shopping Center candidate is satisfied
C39_Witness ==
    /\ ExamineStep
    /\ getCell(grid, Head(queue)) = "shop"
    /\ findConnectedCommercialCluster(grid, Head(queue)).size = 3
    /\ \E p \in CommercialCluster(grid, Head(queue)) : CentreCell(p)
    /\ NoAdjacentShoppingCenter(grid, Head(queue))
    /\ Satisfied(grid, Head(queue), "shopping_center")

====
